---------------------------- MODULE Spec2Model ----------------------------
(***************************************************************************)
(* A model of the VCF reader / writer of vcf.py.                           *)
(*                                                                         *)
(* Text is modelled as text: a line is a TLA+ string and the parsing code  *)
(* is translated character by character (split, find, int, float, the      *)
(* header regular expressions).  Python values that can be None or of      *)
(* several types are tagged records [t |-> <type>, ...]; an exception      *)
(* leaving a function is the value Raise(<exception name>).                *)
(***************************************************************************)
EXTENDS Integers, Sequences, FiniteSets, TLC

VARIABLES
    file,       \* the text of the input file, line by line (never changes)
    reader,     \* the first Reader: its line source and header state
    records,    \* the Records the first Reader has returned, in order
    out,        \* the text written to the Writer's stream, line by line
    writer,     \* the Writer: "none" before construction, then its progress
    reader2,    \* the Reader that re-reads `out`
    records2,   \* the Records the second Reader has returned
    err,        \* the exception that ended the run, or NoError
    prog        \* the program driving the Reader: "none" for the library
                \* calls, the filter tool's arguments and chain, or the
                \* latest fetch call and what it returned

vars == <<file, reader, records, out, writer, reader2, records2, err, prog>>

---------------------------------------------------------------------------
(* Bounds of the model. *)

\* the largest allele number the generated GT strings use
MaxAllele == 2

\* the largest number of sample columns (and header sample names)
MaxSamples == 3

\* the largest number of data lines of the files that are written back
MaxRecords == 2

---------------------------------------------------------------------------
(* Python values. *)

None == [t |-> "None"]
PyInt(n) == [t |-> "int", v |-> n]
PyStr(s) == [t |-> "str", v |-> s]
PyBool(b) == [t |-> "bool", v |-> b]
PyList(q) == [t |-> "list", v |-> q]
\* a float, kept exactly as the reduced fraction n/d, d > 0
PyFloat(n, d) == [t |-> "float", n |-> n, d |-> d]
Raise(e) == [t |-> "raise", v |-> e]
IsRaise(x) == x.t = "raise"
NoError == [t |-> "ok"]

Abs(n) == IF n < 0 THEN -n ELSE n
Min(a, b) == IF a < b THEN a ELSE b

RECURSIVE Gcd(_, _)
Gcd(a, b) == IF b = 0 THEN a ELSE Gcd(b, a % b)

\* the float n/d for integers n, d with d # 0
Frac(n, d) ==
    LET Reduced(s, g) == PyFloat((s * n) \div g, (s * d) \div g)
    IN  IF n = 0 THEN PyFloat(0, 1)
        ELSE Reduced(IF d < 0 THEN -1 ELSE 1, Gcd(Abs(n), Abs(d)))

RECURSIVE Pow10(_)
Pow10(k) == IF k = 0 THEN 1 ELSE 10 * Pow10(k - 1)

---------------------------------------------------------------------------
(* Python string operations. *)

Char(s, i) == SubSeq(s, i, i)
From(s, i) == SubSeq(s, i, Len(s))

\* s.startswith(p)
StartsWith(s, p) == Len(s) >= Len(p) /\ SubSeq(s, 1, Len(p)) = p

\* s.endswith(p)
EndsWith(s, p) ==
    Len(s) >= Len(p) /\ SubSeq(s, Len(s) - Len(p) + 1, Len(s)) = p

\* the least element of a non-empty set of integers, 0 for the empty set
FirstIn(S) == IF S = {} THEN 0 ELSE CHOOSE k \in S : \A j \in S : k <= j

\* the 1-based position of the first occurrence of p in s at or after
\* position i, 0 when there is none
IndexFrom(s, p, i) ==
    FirstIn({k \in i..(Len(s) - Len(p) + 1) : SubSeq(s, k, k + Len(p) - 1) = p})

\* s.find(p): the 0-based index of the first occurrence, -1 when none
find(s, p) == IndexFrom(s, p, 1) - 1

\* p in s
Contains(s, p) == find(s, p) >= 0

\* s.split(c) for a one-character separator c
RECURSIVE split(_, _)
split(s, c) ==
    LET At(i) == IF i = 0 THEN <<s>>
                 ELSE <<SubSeq(s, 1, i - 1)>> \o split(From(s, i + 1), c)
    IN  At(IndexFrom(s, c, 1))

IsSpace(c) == c \in {" ", "\t", "\n", "\r"}

\* s.strip()
RECURSIVE lstrip(_)
lstrip(s) == IF Len(s) > 0 /\ IsSpace(Char(s, 1)) THEN lstrip(From(s, 2)) ELSE s
RECURSIVE rstrip(_)
rstrip(s) ==
    IF Len(s) > 0 /\ IsSpace(Char(s, Len(s)))
    THEN rstrip(SubSeq(s, 1, Len(s) - 1)) ELSE s
strip(s) == lstrip(rstrip(s))

\* s.split(): the maximal runs of non-whitespace characters
RECURSIVE splitws(_)
splitws(s) ==
    LET Word(t, e) == <<SubSeq(t, 1, IF e = 0 THEN Len(t) ELSE e - 1)>>
                        \o (IF e = 0 THEN <<>> ELSE splitws(From(t, e)))
        Run(t) == IF t = "" THEN <<>>
                  ELSE Word(t, FirstIn({k \in 1..Len(t) : IsSpace(Char(t, k))}))
    IN  Run(lstrip(s))

\* sep.join(q) for a sequence of strings
RECURSIVE join(_, _)
join(sep, q) ==
    IF q = <<>> THEN ""
    ELSE IF Len(q) = 1 THEN q[1]
    ELSE q[1] \o sep \o join(sep, Tail(q))

Digits == "0123456789"
IsDigit(c) == Len(c) = 1 /\ find(Digits, c) >= 0
DigitVal(c) == find(Digits, c)
AllDigits(s) == Len(s) > 0 /\ \A i \in 1..Len(s) : IsDigit(Char(s, i))

RECURSIVE DigitsVal(_)
DigitsVal(s) ==
    IF s = "" THEN 0
    ELSE 10 * DigitsVal(SubSeq(s, 1, Len(s) - 1)) + DigitVal(Char(s, Len(s)))

\* the text u without a leading sign
Unsigned(u) == IF StartsWith(u, "-") \/ StartsWith(u, "+") THEN From(u, 2) ELSE u

\* int(s): an optional sign and decimal digits, surrounding whitespace
\* ignored; anything else is a ValueError
int(s) ==
    LET Value(neg, mag) == PyInt(IF neg THEN -mag ELSE mag)
        Digs(neg, body) == IF AllDigits(body) THEN Value(neg, DigitsVal(body))
                           ELSE Raise("ValueError")
        Signed(u) == Digs(StartsWith(u, "-"), Unsigned(u))
    IN  Signed(strip(s))

\* float(s) for decimal notation: an optional sign, digits with at most one
\* point and at least one digit; anything else is a ValueError
float(s) ==
    LET Value(neg, mag, places) == Frac(IF neg THEN -mag ELSE mag, Pow10(places))
        \* ip, fp: the digits before and after the point
        Parts(neg, ip, fp) ==
            IF /\ ip \o fp # ""
               /\ \A i \in 1..Len(ip) : IsDigit(Char(ip, i))
               /\ \A i \in 1..Len(fp) : IsDigit(Char(fp, i))
            THEN Value(neg, DigitsVal(ip \o fp), Len(fp))
            ELSE Raise("ValueError")
        Point(neg, body, p) ==
            Parts(neg, IF p = 0 THEN body ELSE SubSeq(body, 1, p - 1),
                       IF p = 0 THEN "" ELSE From(body, p + 1))
        Digs(neg, body) == Point(neg, body, IndexFrom(body, ".", 1))
        Signed(u) == Digs(StartsWith(u, "-"), Unsigned(u))
    IN  Signed(strip(s))

\* str(n) for an integer n
RECURSIVE NatStr(_)
NatStr(n) ==
    IF n < 10 THEN Char(Digits, n + 1)
    ELSE NatStr(n \div 10) \o Char(Digits, (n % 10) + 1)
IntStr(n) == IF n < 0 THEN "-" \o NatStr(-n) ELSE NatStr(n)

---------------------------------------------------------------------------
(* _Call: one sample's genotype entry.  The back-reference `site` is the   *)
(* Record that holds the Call, passed where a property needs it.           *)

\* _Call.__init__(site, sample, data); data['GT'] of a mapping without GT
\* is a KeyError
Call(sample, data) ==
    IF "GT" \notin DOMAIN data THEN Raise("KeyError")
    ELSE [t |-> "Call", sample |-> sample, data |-> data,
          gt_nums |-> data["GT"], called |-> data["GT"] # None]

\* _Call.phased
phased(call) ==
    call.data["GT"] # None /\ find(call.data["GT"].v, "|") >= 0

\* gt_type with every pair of two ALT alleles classified hom_alt, without the
\* comparison of the two allele numbers
gt_type_any_alt_pair_hom(call) ==
    LET Classify(a1, a2, i1, i2) ==
            IF IsRaise(i1) THEN i1
            ELSE IF i1.v = 0 /\ IsRaise(i2) THEN i2
            ELSE IF i1.v = 0 /\ i2.v = 0 THEN PyInt(0)
            ELSE IF i1.v = 0 /\ i2.v >= 1 THEN PyInt(1)
            ELSE IF IsRaise(i2) THEN i2
            ELSE IF i2.v = 0 /\ i1.v >= 1 THEN PyInt(1)
            ELSE IF i1.v >= 1 /\ i2.v >= 1 THEN PyInt(2)
            ELSE PyInt(-1)
        Unpack(parts) ==
            IF Len(parts) # 2 THEN Raise("ValueError")
            ELSE Classify(parts[1], parts[2], int(parts[1]), int(parts[2]))
    IN  IF call.called
        THEN Unpack(split(call.gt_nums.v, IF ~phased(call) THEN "/" ELSE "|"))
        ELSE None

\* _Call.gt_type: 0, 1, 2, -1, None, or the ValueError of the tuple
\* unpacking / of int()
gt_type(call) ==
    LET \* a1, a2: the two allele texts; i1, i2: int(a1), int(a2)
        Classify(a1, a2, i1, i2) ==
            IF IsRaise(i1) THEN i1
            ELSE IF i1.v = 0 /\ IsRaise(i2) THEN i2
            ELSE IF i1.v = 0 /\ i2.v = 0 THEN PyInt(0)
            ELSE IF i1.v = 0 /\ i2.v >= 1 THEN PyInt(1)
            ELSE IF IsRaise(i2) THEN i2
            ELSE IF i2.v = 0 /\ i1.v >= 1 THEN PyInt(1)
            ELSE IF i1.v >= 1 /\ i2.v >= 1
                 THEN IF a1 = a2 THEN PyInt(2) ELSE PyInt(1)
            ELSE PyInt(-1)
        \* (a1, a2) = self.gt_nums.split(...)
        Unpack(parts) ==
            IF Len(parts) # 2 THEN Raise("ValueError")
            ELSE Classify(parts[1], parts[2], int(parts[1]), int(parts[2]))
    IN  IF call.called
        THEN Unpack(split(call.gt_nums.v, IF ~phased(call) THEN "/" ELSE "|"))
        ELSE None

\* list indexing q[i] with Python's negative indices; q is 1-based here
PyIndex(q, i) ==
    IF 0 <= i /\ i < Len(q) THEN q[i + 1]
    ELSE IF -Len(q) <= i /\ i < 0 THEN q[Len(q) + i + 1]
    ELSE Raise("IndexError")

\* gt_bases without the try/except around the lookup: a failed lookup
\* raises
gt_bases_lookup_raises(site, call) ==
    LET Allele(i) == IF IsRaise(i) THEN i ELSE PyIndex(site.alleles, i.v)
        Bases(phase_char, b1, b2) ==
            IF IsRaise(b1) THEN [value |-> b1, diagnostic |-> FALSE]
            ELSE IF IsRaise(b2) THEN [value |-> b2, diagnostic |-> FALSE]
            ELSE IF b1.t = "str" /\ b2.t = "str"
            THEN [value |-> PyStr(b1.v \o phase_char \o b2.v),
                  diagnostic |-> FALSE]
            ELSE [value |-> Raise("TypeError"), diagnostic |-> FALSE]
        Unpack(phase_char, parts) ==
            IF Len(parts) # 2
            THEN [value |-> Raise("ValueError"), diagnostic |-> FALSE]
            ELSE Bases(phase_char, Allele(int(parts[1])), Allele(int(parts[2])))
        Split(phase_char) == Unpack(phase_char, split(call.gt_nums.v, phase_char))
    IN  IF call.called THEN Split(IF ~phased(call) THEN "/" ELSE "|")
        ELSE [value |-> None, diagnostic |-> FALSE]

\* _Call.gt_bases as [value, diagnostic]: the value returned (or the
\* exception raised) and whether the diagnostic line went to stderr
gt_bases_full(site, call) ==
    LET Allele(i) == IF IsRaise(i) THEN i ELSE PyIndex(site.alleles, i.v)
        Bases(phase_char, b1, b2) ==
            IF b1.t = "str" /\ b2.t = "str"
            THEN [value |-> PyStr(b1.v \o phase_char \o b2.v),
                  diagnostic |-> FALSE]
            \* the bare except: any failure inside the try writes the
            \* diagnostic and the function falls off its end
            ELSE [value |-> None, diagnostic |-> TRUE]
        Unpack(phase_char, parts) ==
            IF Len(parts) # 2
            THEN [value |-> Raise("ValueError"), diagnostic |-> FALSE]
            ELSE Bases(phase_char, Allele(int(parts[1])), Allele(int(parts[2])))
        Split(phase_char) == Unpack(phase_char, split(call.gt_nums.v, phase_char))
    IN  IF call.called THEN Split(IF ~phased(call) THEN "/" ELSE "|")
        ELSE [value |-> None, diagnostic |-> FALSE]

gt_bases(site, call) == gt_bases_full(site, call).value

---------------------------------------------------------------------------
(* _Record: one data line. *)

\* _Record.__init__
Record(CHROM, POS, ID, REF, ALT, QUAL, FILTER, INFO, FORMAT, sample_indexes, samples) ==
    [t |-> "Record",
     CHROM |-> CHROM, POS |-> POS, ID |-> ID, REF |-> REF, ALT |-> ALT,
     QUAL |-> QUAL, FILTER |-> FILTER, INFO |-> INFO, FORMAT |-> FORMAT,
     start |-> POS - 1, end |-> (POS - 1) + Len(REF),
     alleles |-> <<PyStr(REF)>> \o ALT,
     samples |-> samples, sample_indexes |-> sample_indexes]

\* _Record.genotype(name): a name missing from the index is a KeyError, an
\* index past the end of samples an IndexError
genotype(rec, name) ==
    IF name \notin DOMAIN rec.sample_indexes THEN Raise("KeyError")
    ELSE IF rec.samples = None THEN Raise("TypeError")
    ELSE PyIndex(rec.samples.v, rec.sample_indexes[name])

\* _Record.__eq__
RecordEq(a, b) ==
    a.CHROM = b.CHROM /\ a.POS = b.POS /\ a.REF = b.REF /\ a.ALT = b.ALT

\* the number of Calls of the Record whose gt_type is `want`:
\* len([s for s in self.samples if s.gt_type == want]); iterating
\* samples = None is a TypeError, a gt_type that raises ends the count
CountType(rec, want) ==
    LET Count(types, bad) ==
            IF bad # 0 THEN types[bad]
            ELSE PyInt(Cardinality({i \in DOMAIN types : types[i] = want}))
        Types(types) == Count(types, FirstIn({i \in DOMAIN types : IsRaise(types[i])}))
    IN  IF rec.samples = None THEN Raise("TypeError")
        ELSE Types([i \in 1..Len(rec.samples.v) |-> gt_type(rec.samples.v[i])])

\* _Record.num_hom_ref
num_hom_ref(rec) == CountType(rec, PyInt(0))
\* _Record.num_hom_alt
num_hom_alt(rec) == CountType(rec, PyInt(2))
\* num_het with the comparison of num_hom_alt (gt_type == 2)
num_het_counts_hom_alt(rec) == CountType(rec, PyInt(2))

\* _Record.num_het
num_het(rec) == CountType(rec, PyInt(1))
\* _Record.num_unknown
num_unknown(rec) == CountType(rec, None)

\* _Record.num_called
num_called(rec) ==
    IF rec.samples = None THEN Raise("TypeError")
    ELSE PyInt(Cardinality({i \in 1..Len(rec.samples.v) : rec.samples.v[i].called}))

\* aaf dividing by the chromosomes of all samples, called or not
aaf_all_samples(rec) ==
    LET Ratio(hom_ref, het, hom_alt) ==
            IF IsRaise(hom_ref) THEN hom_ref
            ELSE IF IsRaise(het) THEN het
            ELSE IF IsRaise(hom_alt) THEN hom_alt
            ELSE IF 2 * Len(rec.samples.v) = 0 THEN Raise("ZeroDivisionError")
            ELSE Frac(het.v + 2 * hom_alt.v, 2 * Len(rec.samples.v))
    IN  IF Len(rec.ALT) > 1 THEN None
        ELSE Ratio(num_hom_ref(rec), num_het(rec), num_hom_alt(rec))

\* aaf giving up only from three ALT alleles on
aaf_from_three_alts(rec) ==
    LET Ratio(hom_ref, het, hom_alt, called) ==
            IF IsRaise(hom_ref) THEN hom_ref
            ELSE IF IsRaise(het) THEN het
            ELSE IF IsRaise(hom_alt) THEN hom_alt
            ELSE IF 2 * called.v = 0 THEN Raise("ZeroDivisionError")
            ELSE Frac(het.v + 2 * hom_alt.v, 2 * called.v)
    IN  IF Len(rec.ALT) > 2 THEN None
        ELSE Ratio(num_hom_ref(rec), num_het(rec), num_hom_alt(rec),
                   num_called(rec))

\* _Record.aaf
aaf(rec) ==
    LET \* float(het + 2*hom_alt) / float(2.0 * self.num_called)
        Ratio(hom_ref, het, hom_alt, called) ==
            IF IsRaise(hom_ref) THEN hom_ref
            ELSE IF IsRaise(het) THEN het
            ELSE IF IsRaise(hom_alt) THEN hom_alt
            ELSE IF 2 * called.v = 0 THEN Raise("ZeroDivisionError")
            ELSE Frac(het.v + 2 * hom_alt.v, 2 * called.v)
    IN  IF Len(rec.ALT) > 1 THEN None
        ELSE Ratio(num_hom_ref(rec), num_het(rec), num_hom_alt(rec),
                   num_called(rec))

\* _Record.nucl_diversity
nucl_diversity(rec) ==
    LET \* q = 1.0 - p;
        \* (num_chroms / (num_chroms - 1.0)) * (2.0 * p * q)
        Pi(p, num_chroms) ==
            Frac(num_chroms * 2 * p.n * (p.d - p.n),
                 (num_chroms - 1) * p.d * p.d)
        WithAaf(p) == IF IsRaise(p) THEN p ELSE Pi(p, 2 * num_called(rec).v)
    IN  IF Len(rec.ALT) > 1 THEN None ELSE WithAaf(aaf(rec))

\* _Record.add_filter(flt): the Record with flt added to its FILTER, or the
\* exception (a list FILTER cannot be concatenated with a string)
add_filter(record, flt) ==
    IF record.FILTER = None \/ record.FILTER = PyStr("PASS")
    THEN [record EXCEPT !.FILTER = PyStr(flt)]
    ELSE IF record.FILTER.t = "str"
    THEN [record EXCEPT !.FILTER = PyStr(record.FILTER.v \o ";" \o flt)]
    ELSE Raise("TypeError")

---------------------------------------------------------------------------
(* Python dicts are functions from keys to values. *)

EmptyDict == <<>>
Put(d, k, v) == [x \in (DOMAIN d) \cup {k} |-> IF x = k THEN v ELSE d[x]]

---------------------------------------------------------------------------
(* _vcf_metadata_parser: the header regular expressions, matched from the  *)
(* start of the line (re.match), text after the match being ignored.       *)

\* the longest prefix of s that does not contain the character c
Until(s, c) ==
    LET Upto(i) == IF i = 0 THEN s ELSE SubSeq(s, 1, i - 1)
    IN  Upto(IndexFrom(s, c, 1))

\* s without its first n characters
Drop(s, n) == From(s, n + 1)

\* -?\d+|\.|[AG]
IsNumberToken(tok) ==
    \/ AllDigits(tok)
    \/ (StartsWith(tok, "-") /\ AllDigits(From(tok, 2)))
    \/ tok \in {".", "A", "G"}

\* Integer|Float|Flag|Character|String
InfoTypes == {"Integer", "Float", "Flag", "Character", "String"}

\* the Number group as read_info / read_format store it: int(number),
\* None when it is negative or no integer
NumberOf(tok) ==
    LET Num(n) == IF IsRaise(n) THEN None ELSE IF n.v < 0 THEN None ELSE n
    IN  Num(int(tok))

\* info_pattern.match(s): the groups, or NoMatch.  Each group is the text up
\* to the character that ends it ([^,]+, the Number and Type alternatives
\* before a comma, [^"]*); the line matches when it starts with the literals
\* and the groups in the order of the pattern
NoMatch == [t |-> "nomatch"]
info_pattern(s) ==
    LET p1 == "##INFO=<ID="
        p2 == ",Number="
        p3 == ",Type="
        p4 == ",Description=\""
        Groups(id, number, type, desc) ==
            IF /\ StartsWith(s, p1 \o id \o p2 \o number \o p3 \o type \o p4
                                  \o desc \o "\">")
               /\ id # "" /\ IsNumberToken(number) /\ type \in InfoTypes
            THEN [t |-> "match", id |-> id, number |-> number, type |-> type,
                  desc |-> desc]
            ELSE NoMatch
        Desc(id, number, type) ==
            Groups(id, number, type,
                   Until(Drop(s, Len(p1 \o id \o p2 \o number \o p3 \o type \o p4)),
                         "\""))
        Type(id, number) ==
            Desc(id, number,
                 Until(Drop(s, Len(p1 \o id \o p2 \o number \o p3)), ","))
        Number(id) == Type(id, Until(Drop(s, Len(p1 \o id \o p2)), ","))
    IN  Number(Until(Drop(s, Len(p1)), ","))

\* filter_pattern.match(s)
filter_pattern(s) ==
    LET p1 == "##FILTER=<ID="
        p2 == ",Description=\""
        Groups(id, desc) ==
            IF StartsWith(s, p1 \o id \o p2 \o desc \o "\">") /\ id # ""
            THEN [t |-> "match", id |-> id, desc |-> desc]
            ELSE NoMatch
        Desc(id) == Groups(id, Until(Drop(s, Len(p1 \o id \o p2)), "\""))
    IN  Desc(Until(Drop(s, Len(p1)), ","))

\* the positions at which p occurs in s
Occurrences(s, p) ==
    {k \in 1..(Len(s) - Len(p) + 1) : SubSeq(s, k, k + Len(p) - 1) = p}

SetMax(S) == CHOOSE k \in S : \A j \in S : j <= k

\* format_pattern.match(s): ID, Type and Description are greedy `.+` /
\* `.*` groups, so each takes the longest text that lets the rest match
format_pattern(s) ==
    LET p1 == "##FORMAT=<ID="
        p2 == ",Number="
        p3 == ",Type="
        p4 == ",Description=\""
        p5 == "\">"
        idStart == Len(p1) + 1
        \* for ,Number= at position p: the number group, and where the type
        \* group starts
        numberAt(p) == Until(From(s, p + Len(p2)), ",")
        typeStart(p, number) == p + Len(p2) + Len(number) + Len(p3)
        numberOk(p, number) ==
            /\ IsNumberToken(number)
            /\ StartsWith(From(s, p + Len(p2) + Len(number)), p3)
        \* the positions of ,Description=" that leave a type and a closing ">
        descAts(p, number) ==
            {r \in Occurrences(s, p4) :
                /\ r > typeStart(p, number)
                /\ \E c \in Occurrences(s, p5) : c >= r + Len(p4)}
        Fits(p, number) ==
            p > idStart /\ numberOk(p, number) /\ descAts(p, number) # {}
        Groups(p, number, r, c) ==
            [t |-> "match", id |-> SubSeq(s, idStart, p - 1),
             number |-> number,
             type |-> SubSeq(s, typeStart(p, number), r - 1),
             desc |-> SubSeq(s, r + Len(p4), c - 1)]
        Close(p, number, r) ==
            Groups(p, number, r,
                   SetMax({k \in Occurrences(s, p5) : k >= r + Len(p4)}))
        Desc(p, number) == Close(p, number, SetMax(descAts(p, number)))
        Last(ps) ==
            IF StartsWith(s, p1) /\ ps # {}
            THEN Desc(SetMax(ps), numberAt(SetMax(ps)))
            ELSE NoMatch
    IN  Last({p \in Occurrences(s, p2) : Fits(p, numberAt(p))})

\* meta_pattern.match(s), ##(.+)=(.+): the greedy key runs to the last '='
\* that still leaves a non-empty value
meta_pattern(s) ==
    LET Groups(e) == [t |-> "match", key |-> SubSeq(s, 3, e - 1),
                      val |-> From(s, e + 1)]
        Last(es) == IF StartsWith(s, "##") /\ es # {} THEN Groups(SetMax(es))
                    ELSE NoMatch
    IN  Last({e \in Occurrences(s, "=") : e >= 4 /\ e < Len(s)})

\* _Info / _Format / _Filter
Info(id, num, type, desc) == [id |-> id, num |-> num, type |-> type, desc |-> desc]
Format(id, num, type, desc) == [id |-> id, num |-> num, type |-> type, desc |-> desc]
Filter(id, desc) == [id |-> id, desc |-> desc]

\* read_info(info_string): [key, val] or the SyntaxError
read_info(info_string) ==
    LET Read(match) ==
            IF match = NoMatch THEN Raise("SyntaxError")
            ELSE [t |-> "pair", key |-> match.id,
                  val |-> Info(match.id, NumberOf(match.number), match.type,
                               match.desc)]
    IN  Read(info_pattern(info_string))

\* read_filter(filter_string)
read_filter(filter_string) ==
    LET Read(match) ==
            IF match = NoMatch THEN Raise("SyntaxError")
            ELSE [t |-> "pair", key |-> match.id,
                  val |-> Filter(match.id, match.desc)]
    IN  Read(filter_pattern(filter_string))

\* read_format(format_string)
read_format(format_string) ==
    LET Read(match) ==
            IF match = NoMatch THEN Raise("SyntaxError")
            ELSE [t |-> "pair", key |-> match.id,
                  val |-> Format(match.id, NumberOf(match.number), match.type,
                                 match.desc)]
    IN  Read(format_pattern(format_string))

\* read_meta(meta_string): match.group on no match is an AttributeError
read_meta(meta_string) ==
    LET Read(match) ==
            IF match = NoMatch THEN Raise("AttributeError")
            ELSE [t |-> "pair", key |-> match.key, val |-> match.val]
    IN  Read(meta_pattern(meta_string))

---------------------------------------------------------------------------
(* Reader. *)

RESERVED_INFO ==
    [AA |-> "String", AC |-> "Integer", AF |-> "Float", AN |-> "Integer",
     BQ |-> "Float", CIGAR |-> "String", DB |-> "Flag", DP |-> "Integer",
     END |-> "Integer", H2 |-> "Flag", MQ |-> "Float", MQ0 |-> "Integer",
     NS |-> "Integer", SB |-> "String", SOMATIC |-> "Flag",
     VALIDATED |-> "Flag"]

RESERVED_FORMAT ==
    [GT |-> "String", DP |-> "Integer", FT |-> "String", GL |-> "Float",
     GQ |-> "Float", HQ |-> "Float"]

\* q[n:] of a Python list, q 1-based here
SliceFrom(q, n) == IF Len(q) <= n THEN <<>> ELSE SubSeq(q, n + 1, Len(q))

\* dict([(x, i) for (i, x) in enumerate(samples)]): a later duplicate of a
\* name replaces the earlier index
SampleIndexes(samples) ==
    [x \in {samples[i] : i \in 1..Len(samples)} |->
        SetMax({i \in 1..Len(samples) : samples[i] = x}) - 1]

\* an open file object: its name attribute (None where it has none, as a
\* StringIO), whether its bytes are gzip-compressed, and its text
FileObject(name, gz, lines) ==
    [t |-> "file", name |-> name, gz |-> gz, lines |-> lines]

\* file(filename): the files at paths ending in .gz hold gzip bytes
OpenPath(filename, lines) ==
    FileObject(filename, EndsWith(filename.v, ".gz"), lines)

\* the bytes of a gzip file taken as text (a stand-in for the binary line)
GzipBytes == <<"<1f8b0800>">>

\* the lines self.reader yields over the file object f, wrapped in a
\* GzipFile or not
LineSource(f, wrapped) ==
    IF wrapped = f.gz THEN f.lines
    ELSE IF wrapped THEN <<>>
    ELSE GzipBytes

\* bool(x) of None, a string, a number or a file object
Truthy(x) == x # None /\ x # PyStr("") /\ x # PyInt(0) /\ x # PyFloat(0, 1)

\* the arguments of a call of Reader.__init__
ReaderArgs(fsock, filename, compressed, prepend_chr) ==
    [t |-> "args", fsock |-> fsock, filename |-> filename,
     compressed |-> compressed, prepend_chr |-> prepend_chr]

\* a Reader whose header has not been parsed: the attributes __init__ sets
\* before _parse_metainfo, over the line source `lines`; args records the
\* arguments the constructor was called with
NewReader(lines, filename, args) ==
    [t |-> "Reader", args |-> args, filename |-> filename,
     prepend_chr |-> args.prepend_chr, tabix |-> None,
     lines |-> lines, metadata |-> EmptyDict,
     infos |-> EmptyDict, filters |-> EmptyDict, formats |-> EmptyDict,
     samples |-> <<>>, sample_indexes |-> EmptyDict, header_lines |-> <<>>,
     \* what the latest call of next() did: "none" before the first call,
     \* "Record", "StopIteration", or "error" for any other exception; and
     \* how many calls of next() there have been
     last |-> "none", calls |-> 0]

\* Reader._parse_metainfo on the Reader r: the Reader positioned after the
\* column-header line, or the exception
RECURSIVE parse_metainfo(_)
parse_metainfo(r) ==
    LET \* r1: the Reader after the line has been consumed; kv: what the
        \* metadata parser made of the line
        PutInfo(r1, kv) ==
            IF IsRaise(kv) THEN kv
            ELSE parse_metainfo([r1 EXCEPT !.infos = Put(r.infos, kv.key, kv.val)])
        PutFilter(r1, kv) ==
            IF IsRaise(kv) THEN kv
            ELSE parse_metainfo([r1 EXCEPT !.filters = Put(r.filters, kv.key, kv.val)])
        PutFormat(r1, kv) ==
            IF IsRaise(kv) THEN kv
            ELSE parse_metainfo([r1 EXCEPT !.formats = Put(r.formats, kv.key, kv.val)])
        PutMeta(r1, kv) ==
            IF IsRaise(kv) THEN kv
            ELSE parse_metainfo([r1 EXCEPT !.metadata = Put(r.metadata, kv.key, kv.val)])
        Dispatch(r1, line) ==
            IF StartsWith(line, "##INFO") THEN PutInfo(r1, read_info(line))
            ELSE IF StartsWith(line, "##FILTER") THEN PutFilter(r1, read_filter(line))
            ELSE IF StartsWith(line, "##FORMAT") THEN PutFormat(r1, read_format(line))
            ELSE PutMeta(r1, read_meta(strip(line)))
        \* fields = line.split(); self.samples = fields[9:]
        ColumnHeaderLine(samples) ==
            [r EXCEPT !.lines = Tail(r.lines),
                      !.samples = samples,
                      !.sample_indexes = SampleIndexes(samples)]
        Line(raw) ==
            IF StartsWith(raw, "##")
            THEN Dispatch([r EXCEPT !.lines = Tail(r.lines),
                                    !.header_lines = Append(r.header_lines, raw)],
                          strip(raw))
            ELSE ColumnHeaderLine(SliceFrom(splitws(raw), 9))
    IN  IF r.lines = <<>> THEN Raise("StopIteration") ELSE Line(Head(r.lines))

\* a constructor that refuses a stream together with a path
ReaderInit_refuses_both(args, disk) ==
    LET Parse(src, filename, wrapped) ==
            IF wrapped /\ ~src.gz /\ src.lines # <<>> THEN Raise("IOError")
            ELSE parse_metainfo(NewReader(LineSource(src, wrapped), filename, args))
        Wrap(src, filename) ==
            Parse(src, filename,
                  args.compressed
                  \/ (Truthy(filename) /\ EndsWith(filename.v, ".gz")))
    IN  IF Truthy(args.fsock) = Truthy(args.filename)
        THEN Raise("Exception")
        ELSE IF Truthy(args.fsock)
        THEN Wrap(args.fsock, args.fsock.name)
        ELSE Wrap(OpenPath(args.filename, disk), args.filename)

\* Reader.__init__(fsock, filename, compressed, prepend_chr): the Reader, or
\* the exception that leaves the constructor; disk is the text of the file
\* at the path filename
ReaderInit(args, disk) ==
    LET \* a GzipFile over bytes that are not gzip raises at the first read
        Parse(src, filename, wrapped) ==
            IF wrapped /\ ~src.gz /\ src.lines # <<>> THEN Raise("IOError")
            ELSE parse_metainfo(NewReader(LineSource(src, wrapped), filename, args))
        Wrap(src, filename) ==
            Parse(src, filename,
                  args.compressed
                  \/ (Truthy(filename) /\ EndsWith(filename.v, ".gz")))
    IN  IF ~(Truthy(args.fsock) \/ Truthy(args.filename))
        THEN Raise("Exception")
        ELSE IF Truthy(args.fsock)
        THEN Wrap(args.fsock,
                  IF args.filename = None THEN args.fsock.name
                  ELSE args.filename)
        ELSE Wrap(OpenPath(args.filename, disk), args.filename)

\* the first exception among the elements of a sequence of values, or the
\* sequence as a list
ListOrRaise(q) ==
    LET First(bad) == IF bad = 0 THEN PyList(q) ELSE q[bad]
    IN  First(FirstIn({i \in 1..Len(q) : IsRaise(q[i])}))

\* _map without the test for the missing value '.'
map_no_missing(func, iterable) ==
    ListOrRaise([i \in 1..Len(iterable) |->
        IF func = "int" THEN int(iterable[i])
        ELSE IF func = "float" THEN float(iterable[i])
        ELSE PyStr(iterable[i])])

\* Reader._map(func, iterable, bad='.') with func one of int, float, str
map(func, iterable) ==
    ListOrRaise([i \in 1..Len(iterable) |->
        IF iterable[i] = "." THEN None
        ELSE IF func = "int" THEN int(iterable[i])
        ELSE IF func = "float" THEN float(iterable[i])
        ELSE PyStr(iterable[i])])

\* val[0] as _parse_info applies it
FirstOf(val) ==
    IF val.t = "list" THEN val.v[1]
    ELSE IF val.t = "str"
         THEN IF val.v = "" THEN Raise("IndexError") ELSE PyStr(Char(val.v, 1))
    ELSE IF val.t = "unbound" THEN Raise("UnboundLocalError")
    ELSE Raise("TypeError")

Unbound == [t |-> "unbound"]

\* the type _parse_info resolves for one split entry
InfoEntryType(infos, entry) ==
    IF entry[1] \in DOMAIN infos THEN infos[entry[1]].type
    ELSE IF entry[1] \in DOMAIN RESERVED_INFO THEN RESERVED_INFO[entry[1]]
    ELSE IF Len(entry) > 1 THEN "String"
    ELSE "Flag"

\* one turn of the loop of _parse_info: the new value of the local `val`
\* before the cardinality step, given its value `prev` from the turn before
InfoEntryVal(entry_type, entry, prev) ==
    IF entry_type = "Integer" THEN
        IF Len(entry) < 2 THEN Raise("IndexError")
        ELSE map("int", split(entry[2], ","))
    ELSE IF entry_type = "Float" THEN
        IF Len(entry) < 2 THEN Raise("IndexError")
        ELSE map("float", split(entry[2], ","))
    ELSE IF entry_type = "Flag" THEN PyBool(TRUE)
    ELSE IF entry_type = "String" THEN
        IF Len(entry) < 2 THEN Raise("IndexError") ELSE PyStr(entry[2])
    ELSE prev

\* the loop of _parse_info over the entries from position i on, with the
\* dictionary built so far and the local `val` left by the turn before
RECURSIVE parse_info_loop(_, _, _, _, _)
parse_info_loop(infos, entries, i, retdict, prev) ==
    LET \* retdict[ID] = val
        Store(ID, val) ==
            IF IsRaise(val) THEN val
            ELSE IF val = Unbound THEN Raise("UnboundLocalError")
            ELSE parse_info_loop(infos, entries, i + 1, Put(retdict, ID, val), val)
        \* if self.infos[ID].num == 1: val = val[0]
        Cardinality1(ID, val) ==
            Store(ID, IF IsRaise(val) THEN val
                      ELSE IF ID \in DOMAIN infos /\ infos[ID].num = PyInt(1)
                           THEN FirstOf(val)
                      ELSE val)
        Entry(entry) ==
            Cardinality1(entry[1],
                         InfoEntryVal(InfoEntryType(infos, entry), entry, prev))
    IN  IF i > Len(entries) THEN [t |-> "dict", v |-> retdict]
        ELSE Entry(split(entries[i], "="))

\* Reader._parse_info(info_str)
parse_info(infos, info_str) ==
    parse_info_loop(infos, split(info_str, ";"), 1, EmptyDict, Unbound)

\* the loop of _parse_sample over izip(samp_fmt, samp_fmt_types,
\* sample.split(':')) from position i on
RECURSIVE parse_sample_loop(_, _, _, _, _)
parse_sample_loop(samp_fmt, samp_fmt_types, cols, i, sampdict) ==
    LET Store(fmt, val) ==
            IF IsRaise(val) THEN val
            ELSE parse_sample_loop(samp_fmt, samp_fmt_types, cols, i + 1,
                                   Put(sampdict, fmt, val))
        Field(fmt, entry_type, vals) ==
            IF fmt = "GT" THEN
                IF vals[1] = "./."
                THEN [t |-> "dict", v |-> Put(sampdict, fmt, None)]
                ELSE Store(fmt, PyStr(vals[1]))
            ELSE Store(fmt,
                       IF entry_type = "Integer" THEN map("int", vals)
                       ELSE IF entry_type \in {"Float", "Numeric"}
                            THEN map("float", vals)
                       ELSE PyList([k \in 1..Len(vals) |-> PyStr(vals[k])]))
    IN  IF i > Min(Len(samp_fmt), Len(cols)) THEN [t |-> "dict", v |-> sampdict]
        ELSE Field(samp_fmt[i], samp_fmt_types[i], split(cols[i], ","))

\* _parse_sample without the break at the missing genotype: the fields
\* after GT are decoded as for a called sample
parse_sample_without_break(sample, samp_fmt, samp_fmt_types) ==
    LET Decode(fmt, entry_type, vals) ==
            IF fmt = "GT"
            THEN IF vals[1] = "./." THEN None ELSE PyStr(vals[1])
            ELSE IF entry_type = "Integer" THEN map("int", vals)
            ELSE IF entry_type \in {"Float", "Numeric"} THEN map("float", vals)
            ELSE PyList([k \in 1..Len(vals) |-> PyStr(vals[k])])
        Dict(cols, vals) ==
            IF \E k \in 1..Len(vals) : IsRaise(vals[k])
            THEN vals[FirstIn({k \in 1..Len(vals) : IsRaise(vals[k])})]
            ELSE [t |-> "dict",
                  v |-> [x \in {samp_fmt[k] : k \in 1..Len(samp_fmt)} |->
                            IF \E k \in 1..Len(vals) : samp_fmt[k] = x
                            THEN vals[SetMax({k \in 1..Len(vals) : samp_fmt[k] = x})]
                            ELSE None]]
        Zip(cols) ==
            Dict(cols, [k \in 1..Min(Len(samp_fmt), Len(cols)) |->
                           Decode(samp_fmt[k], samp_fmt_types[k],
                                  split(cols[k], ","))])
    IN  Zip(split(sample, ":"))

\* Reader._parse_sample(sample, samp_fmt, samp_fmt_types)
parse_sample(sample, samp_fmt, samp_fmt_types) ==
    parse_sample_loop(samp_fmt, samp_fmt_types, split(sample, ":"), 1,
        [x \in {samp_fmt[k] : k \in 1..Len(samp_fmt)} |-> None])

\* the type _parse_samples resolves for a FORMAT field
FormatEntryType(formats, fmt) ==
    IF fmt \in DOMAIN formats THEN formats[fmt].type
    ELSE IF fmt \in DOMAIN RESERVED_FORMAT THEN RESERVED_FORMAT[fmt]
    ELSE "String"

\* Reader._parse_samples(samples, samp_fmt, site) of the Reader r: the list
\* of Calls, one per pair of izip(self.samples, samples)
parse_samples(r, samples, samp_fmt_str) ==
    LET NewCall(name, sampdict) ==
            IF IsRaise(sampdict) THEN sampdict ELSE Call(name, sampdict.v)
        Calls(samp_fmt, samp_fmt_types) ==
            ListOrRaise([k \in 1..Min(Len(r.samples), Len(samples)) |->
                NewCall(r.samples[k],
                        parse_sample(samples[k], samp_fmt, samp_fmt_types))])
        Types(samp_fmt) ==
            Calls(samp_fmt,
                  [k \in 1..Len(samp_fmt) |->
                      FormatEntryType(r.formats, samp_fmt[k])])
    IN  Types(split(samp_fmt_str, ":"))

\* QUAL always converted with float()
ParseQual_always_float(tok) ==
    IF tok = "." THEN None ELSE float(tok)

\* the QUAL column as Reader.next decodes it
ParseQual(tok) ==
    IF tok = "." THEN None
    ELSE IF Contains(tok, ".") THEN float(tok) ELSE int(tok)

\* a FILTER column that keeps the pass sentinel as a name
ParseFilter_keeps_pass(tok) ==
    LET Strs(q) == PyList([k \in 1..Len(q) |-> PyStr(q[k])])
    IN  IF Contains(tok, ";") THEN Strs(split(tok, ";"))
        ELSE PyStr(tok)

\* the FILTER column as Reader.next decodes it
ParseFilter(tok) ==
    LET Strs(q) == PyList([k \in 1..Len(q) |-> PyStr(q[k])])
    IN  IF Contains(tok, ";") THEN Strs(split(tok, ";"))
        ELSE IF tok = "PASS" THEN None
        ELSE PyStr(tok)

\* the body of Reader.next after the line has been read: the Record of
\* the line, or the exception (an IndexError where the row is too short)
ParseLine(r, line) ==
    LET Build(row, pos, qual, info, fmt, samples) ==
            IF IsRaise(info) THEN info
            ELSE IF IsRaise(samples) THEN samples
            ELSE Record(IF r.prepend_chr THEN "chr" \o row[1] ELSE row[1], pos.v,
                        IF row[3] # "." THEN PyStr(row[3]) ELSE None,
                        row[4], map("str", split(row[5], ",")).v, qual,
                        ParseFilter(row[7]), info.v, fmt, r.sample_indexes,
                        samples)
        Samples(row, pos, qual, fmt) ==
            Build(row, pos, qual, parse_info(r.infos, row[8]), fmt,
                  IF fmt # None THEN parse_samples(r, SliceFrom(row, 9), fmt.v)
                  ELSE None)
        Columns(row, n, pos, qual) ==
            IF IsRaise(pos) THEN pos
            ELSE IF n < 5 THEN Raise("IndexError")
            ELSE IF IsRaise(qual) THEN qual
            ELSE IF n < 8 THEN Raise("IndexError")
            ELSE Samples(row, pos, qual, IF n >= 9 THEN PyStr(row[9]) ELSE None)
        Row(row) ==
            Columns(row, Len(row),
                    IF Len(row) >= 2 THEN int(row[2]) ELSE Raise("IndexError"),
                    IF Len(row) >= 6 THEN ParseQual(row[6]) ELSE Raise("IndexError"))
    IN  Row(splitws(line))

---------------------------------------------------------------------------
(* Writer. *)

\* the number of decimal places of the float with denominator d
RECURSIVE Places(_, _)
Places(d, k) == IF Pow10(k) % d = 0 THEN k ELSE Places(d, k + 1)

\* the decimal digits of n, left-padded with zeros to k places
RECURSIVE Padded(_, _)
Padded(n, k) == IF k = 0 THEN "" ELSE Padded(n \div 10, k - 1) \o Char(Digits, (n % 10) + 1)

\* str(x) / repr(x) of a float with a short finite decimal expansion
FloatStr(x) ==
    LET \* k decimal places; mag = |x| * 10^k
        Text(k, mag) ==
            (IF x.n < 0 THEN "-" ELSE "") \o NatStr(mag \div Pow10(k)) \o "." \o
            (IF k = 0 THEN "0" ELSE Padded(mag % Pow10(k), k))
        Scaled(k) == Text(k, (Abs(x.n) * Pow10(k)) \div x.d)
    IN  Scaled(Places(x.d, 0))

\* repr of a list of strings: ['a', 'b']
ListRepr(q) ==
    "[" \o join(", ", [k \in 1..Len(q) |-> "'" \o q[k].v \o "'"]) \o "]"

\* str(x) of a value that is not None
str(x) ==
    IF x.t = "str" THEN x.v
    ELSE IF x.t = "int" THEN IntStr(x.v)
    ELSE IF x.t = "float" THEN FloatStr(x)
    ELSE IF x.t = "bool" THEN (IF x.v THEN "True" ELSE "False")
    ELSE IF x.t = "list" THEN ListRepr(x.v)
    ELSE "None"

\* Writer._map(str, iterable, none='.')
wmap(iterable) ==
    [k \in 1..Len(iterable) |->
        IF iterable[k] # None THEN str(iterable[k]) ELSE "."]

\* Writer._stringify(x, none='.')
stringify(x) ==
    IF x.t = "list" THEN join(",", wmap(x.v))
    ELSE IF x # None THEN str(x) ELSE "."

\* Writer._format_alt(alt): x or '.' for each allele
format_alt(alt) ==
    join(",", [k \in 1..Len(alt) |->
        IF alt[k] = None \/ alt[k] = PyStr("") THEN "." ELSE alt[k].v])

\* Writer._format_info(info), the dict iterated in the key order `order`
format_info(info, order) ==
    join(";", [k \in 1..Len(order) |->
        order[k] \o "=" \o stringify(info[order[k]])])

\* Writer._format_sample(fmt, sample): a FORMAT key missing from the
\* sample's data is a KeyError
format_sample(fmt, sample) ==
    LET Fields(fs) ==
            IF \E k \in 1..Len(fs) : fs[k] \notin DOMAIN sample.data
            THEN Raise("KeyError")
            ELSE PyStr(join(":", [k \in 1..Len(fs) |->
                                     stringify(sample.data[fs[k]])]))
    IN  IF sample.data["GT"] = None THEN PyStr("./.")
        ELSE Fields(split(fmt, ":"))

\* one field as csv.writer renders it (excel dialect, tab delimiter,
\* minimal quoting): None is the empty string, other values their str();
\* a field holding the delimiter, a quote or a line break is quoted
CsvField(x) ==
    LET Quoted(text) ==
            IF \E c \in {"\t", "\"", "\r", "\n"} : Contains(text, c)
            THEN "\"" \o join("\"\"", split(text, "\"")) \o "\""
            ELSE text
    IN  Quoted(IF x = None THEN "" ELSE str(x))

\* csv.writer.writerow(row): the fields joined by tabs, ended by \r\n
writerow(row) ==
    join("\t", [k \in 1..Len(row) |-> CsvField(row[k])]) \o "\r\n"

\* Writer.fixed_fields
fixed_fields ==
    <<"#CHROM", "POS", "ID", "REF", "ALT", "QUAL", "FILTER", "INFO", "FORMAT">>

\* the orders in which a dict with key set K can be iterated
Orders(K) ==
    {q \in [1..Cardinality(K) -> K] : \A i, j \in 1..Cardinality(K) : i # j => q[i] # q[j]}

\* a header block with the FILTER declarations ahead of the FORMAT ones
WriterHeader_filters_before_formats(r, om, oi, of, ol) ==
    LET InfoText(line) ==
            "##INFO=<ID=" \o line[1] \o ",Number=" \o line[2] \o ",Type="
            \o line[3] \o ",Description=\"" \o line[4] \o "\">\n"
        FormatText(line) ==
            "##FORMAT=<ID=" \o line[1] \o ",Number=" \o line[2] \o ",Type="
            \o line[3] \o ",Description=\"" \o line[4] \o "\">\n"
        FilterText(line) ==
            "##FILTER=<ID=" \o line[1] \o ",Description=\"" \o line[2] \o "\">\n"
        \* tuple(self._map(str, line)) of an Info or Format
        Decl(d) == wmap(<<PyStr(d.id), d.num, PyStr(d.type), PyStr(d.desc)>>)
    IN  [k \in 1..Len(om) |-> "##" \o om[k] \o "=" \o r.metadata[om[k]] \o "\n"]
        \o [k \in 1..Len(oi) |-> InfoText(Decl(r.infos[oi[k]]))]
        \o [k \in 1..Len(ol) |->
              FilterText(wmap(<<PyStr(r.filters[ol[k]].id),
                                PyStr(r.filters[ol[k]].desc)>>))]
        \o [k \in 1..Len(of) |-> FormatText(Decl(r.formats[of[k]]))]
        \o
        \* _write_header
        <<writerow([k \in 1..(Len(fixed_fields) + Len(r.samples)) |->
                      IF k <= Len(fixed_fields) THEN PyStr(fixed_fields[k])
                      ELSE PyStr(r.samples[k - Len(fixed_fields)])])>>

\* the header block Writer.__init__ writes for the template Reader r, the
\* dicts iterated in the orders om, oi, of, ol
WriterHeader(r, om, oi, of, ol) ==
    LET InfoText(line) ==
            "##INFO=<ID=" \o line[1] \o ",Number=" \o line[2] \o ",Type="
            \o line[3] \o ",Description=\"" \o line[4] \o "\">\n"
        FormatText(line) ==
            "##FORMAT=<ID=" \o line[1] \o ",Number=" \o line[2] \o ",Type="
            \o line[3] \o ",Description=\"" \o line[4] \o "\">\n"
        FilterText(line) ==
            "##FILTER=<ID=" \o line[1] \o ",Description=\"" \o line[2] \o "\">\n"
        \* tuple(self._map(str, line)) of an Info or Format
        Decl(d) == wmap(<<PyStr(d.id), d.num, PyStr(d.type), PyStr(d.desc)>>)
    IN  [k \in 1..Len(om) |-> "##" \o om[k] \o "=" \o r.metadata[om[k]] \o "\n"]
        \o [k \in 1..Len(oi) |-> InfoText(Decl(r.infos[oi[k]]))]
        \o [k \in 1..Len(of) |-> FormatText(Decl(r.formats[of[k]]))]
        \o [k \in 1..Len(ol) |->
              FilterText(wmap(<<PyStr(r.filters[ol[k]].id),
                                PyStr(r.filters[ol[k]].desc)>>))]
        \o
        \* _write_header
        <<writerow([k \in 1..(Len(fixed_fields) + Len(r.samples)) |->
                      IF k <= Len(fixed_fields) THEN PyStr(fixed_fields[k])
                      ELSE PyStr(r.samples[k - Len(fixed_fields)])])>>

\* record.FILTER or '.'
FilterOrDot(filt) ==
    IF filt = None \/ filt = PyStr("") \/ filt = PyList(<<>>) THEN PyStr(".")
    ELSE filt

\* Writer.write_record(record): the line written, or the exception; the
\* INFO dict iterated in the key order `order`
write_record(record, order) ==
    LET Strs(q) == [k \in 1..Len(q) |-> PyStr(q[k])]
        Row(ffs, samples) ==
            IF IsRaise(samples) THEN samples
            ELSE PyStr(writerow(ffs \o samples.v))
        Samples(ffs) ==
            IF record.samples = None THEN Raise("TypeError")
            ELSE Row(ffs, ListOrRaise([k \in 1..Len(record.samples.v) |->
                     format_sample(record.FORMAT.v, record.samples.v[k])]))
    IN  Samples(Strs(wmap(<<PyStr(record.CHROM), PyInt(record.POS),
                            record.ID, PyStr(record.REF)>>))
                \o <<PyStr(format_alt(record.ALT)), record.QUAL,
                     FilterOrDot(record.FILTER),
                     PyStr(format_info(record.INFO, order)), record.FORMAT>>)

---------------------------------------------------------------------------
(* The input files the model reads. *)

TabLine(fields) == join("\t", fields) \o "\n"

SampleName(i) == "S" \o NatStr(i)

\* the column-header line naming h samples
ColumnHeader(h) ==
    TabLine(fixed_fields \o [i \in 1..h |-> SampleName(i)])

FileFormatLine == "##fileformat=VCFv4.0\n"
InfoLine(id, number, type) ==
    "##INFO=<ID=" \o id \o ",Number=" \o number \o ",Type=" \o type
    \o ",Description=\"about " \o id \o "\">\n"
FormatLine(id, number, type) ==
    "##FORMAT=<ID=" \o id \o ",Number=" \o number \o ",Type=" \o type
    \o ",Description=\"about " \o id \o "\">\n"
FilterLine(id) ==
    "##FILTER=<ID=" \o id \o ",Description=\"about " \o id \o "\">\n"

\* the allele numbers of the generated genotypes, as text
AlleleTokens == {IntStr(a) : a \in -1..MaxAllele}

\* every genotype a<sep>b over the allele numbers, the missing call, and a
\* haploid genotype
GTStrings ==
    {a \o sep \o b : a \in AlleleTokens, b \in AlleleTokens, sep \in {"/", "|"}}
    \cup {"./.", "1"}

\* the genotypes of the files with several samples
GTPool == {"./.", "0/0", "0|1", "1/1", "0/-1"}

\* one sample, every genotype, one / two / no ALT allele
SingleSampleFiles ==
    {<<FileFormatLine, FormatLine("GT", "1", "String"), ColumnHeader(1),
       TabLine(<<"20", "100", ".", "A", alt, "50", "PASS", "NS=3", "GT", gt>>)>> :
        alt \in {"T", "G,T", "."}, gt \in GTStrings}

\* MaxSamples samples, each with a genotype of the pool
MultiSampleFiles ==
    {<<FileFormatLine, ColumnHeader(MaxSamples),
       TabLine(<<"20", "100", ".", "A", alt, "50", "PASS", "NS=3", "GT">> \o gts)>> :
        alt \in {"T", "G,T"}, gts \in [1..MaxSamples -> GTPool]}

\* h header samples against c sample columns, and lines without FORMAT
ColumnCountFiles ==
    {<<FileFormatLine, ColumnHeader(h),
       TabLine(<<"20", "100", ".", "A", "T", "50", "PASS", "NS=3", "GT">>
               \o [k \in 1..c |-> IF k = 2 THEN "./." ELSE "0|1"])>> :
        h \in 0..MaxSamples, c \in 0..MaxSamples}
    \cup
    {<<FileFormatLine, ColumnHeader(h),
       TabLine(<<"20", "100", ".", "A", "T", "50", "PASS", "NS=3">>)>> :
        h \in 0..MaxSamples}

\* the data lines of the files that are written back and re-read
RoundTripLines ==
    {TabLine(<<"20", "101", "rs1", "A", "T", "50", "PASS", "NS=3", "GT:DP", "0|1:5", "1/1:7">>),
     TabLine(<<"20", "102", "rs1", "A", "T", ".", "PASS", "NS=3", "GT:DP", "0|1:5", "1/1:7">>),
     TabLine(<<"20", "103", "rs1", "A", "T", "29.5", "q10", "NS=3", "GT:DP", "0|1:5", "1/1:7">>),
     TabLine(<<"20", "104", "rs1", "A", "T", "50", "q10;s50", "NS=3", "GT:DP", "0|1:5", "1/1:7">>),
     TabLine(<<"20", "105", ".", "A", ".", "50", ".", "NS=3;DB", "GT:DP", "0/0:.", "./.">>),
     TabLine(<<"20", "106", "rs1", "A", "G,T", "50", "PASS", "NS=3", "GT:DP", "1/2:5", "2|2:7">>),
     TabLine(<<"20", "107", "rs1", "A", "T", "50", "PASS", "NS=3">>)}

RoundTripHeader ==
    <<FileFormatLine, InfoLine("NS", "1", "Integer"), InfoLine("DB", "0", "Flag"),
      FormatLine("GT", "1", "String"), FilterLine("q10"), ColumnHeader(2)>>

RoundTripFiles ==
    {RoundTripHeader \o body :
        body \in UNION {[1..n -> RoundTripLines] : n \in 1..MaxRecords}}

\* an INFO key K declared Integer or Float with several cardinalities, and
\* the reserved keys DP and AF undeclared, against values holding '.'
MissingValueFiles ==
    {<<FileFormatLine, InfoLine("K", number, type), ColumnHeader(0),
       TabLine(<<"20", "100", ".", "A", "T", "50", "PASS", "K=" \o val>>)>> :
        number \in {"1", "2", ".", "A"}, type \in {"Integer", "Float"},
        val \in {".", "3", "3,.", ".,3", ".,."}}
    \cup
    {<<FileFormatLine, ColumnHeader(0),
       TabLine(<<"20", "100", ".", "A", "T", "50", "PASS", key \o "=" \o val>>)>> :
        key \in {"DP", "AF"}, val \in {".", "3", "3,.", ".,3", ".,."}}

\* well-formed and malformed declaration lines
HeaderLines ==
    {InfoLine("AF", "A", "Float"),
     InfoLine("AF", "-1", "Float"),
     InfoLine("AF", "2", "Character"),
     "##INFO=<ID=AF,Number=A,Type=Float>\n",
     "##INFO=<ID=AF,Number=A,Type=Double,Description=\"x\">\n",
     "##INFO=<ID=AF,Number=B,Type=Float,Description=\"x\">\n",
     "##INFO=<ID=AF,Type=Float,Number=A,Description=\"x\">\n",
     "##INFO=<ID=,Number=A,Type=Float,Description=\"x\">\n",
     "##INFO=<ID=AF,Number=A,Type=Float,Description=\"x\n",
     "##INFO=<ID=AF,Number=A,Type=Float,Description=\"x\">trailing\n",
     "##INFOX\n",
     FilterLine("q10"),
     "##FILTER=<ID=q10>\n",
     "##FILTER=<Description=\"x\",ID=q10>\n",
     "##FILTER=<ID=q10,Description=x>\n",
     FormatLine("GQ", "1", "Integer"),
     FormatLine("GL", ".", "Anything"),
     "##FORMAT=<ID=GQ,Number=1,Type=Integer>\n",
     "##FORMAT=<ID=GQ,Number=x,Type=Integer,Description=\"x\">\n",
     "##FORMAT=<ID=GQ,Number=1,Description=\"x\">\n",
     "##FORMAT=<ID=GQ,Number=1,Type=Integer,Description=\"x\n"}

HeaderFiles ==
    {<<FileFormatLine, h, ColumnHeader(1),
       TabLine(<<"20", "100", ".", "A", "T", "50", "PASS", "NS=3", "GT", "0/1">>)>> :
        h \in HeaderLines}

\* the minimal file: INFO NS (Integer, Number=1), one sample S1, one line
MinimalFile ==
    <<FileFormatLine, InfoLine("NS", "1", "Integer"), ColumnHeader(1),
      TabLine(<<"20", "100", ".", "A", "T", "50", "PASS", "NS=3", "GT", "0/1">>)>>

\* files that end before the column-header line
TruncatedFiles ==
    {<<>>, <<FileFormatLine>>,
     <<FileFormatLine, InfoLine("NS", "1", "Integer"), FormatLine("GT", "1", "String")>>}

Files ==
    SingleSampleFiles \cup MultiSampleFiles \cup ColumnCountFiles
    \cup RoundTripFiles \cup MissingValueFiles \cup HeaderFiles \cup {MinimalFile}
    \cup TruncatedFiles

\* a stream without a name over the text, as the StringIO of the tests
StringIO(lines) == FileObject(None, FALSE, lines)

\* the files opened in every way the constructor allows
OpenFiles ==
    {<<FileFormatLine, ColumnHeader(1),
       TabLine(<<chrom, "100", ".", "A", "T", "50", "PASS", "NS=3", "GT", "0/1">>)>> :
        chrom \in {"1", "chr1"}}

\* the argument combinations of the constructor over a file: no stream, a
\* stream without a name, a named file object; no path, a path; plain and
\* gzip bytes
OpenArgs(lines) ==
    {ReaderArgs(fsock, filename, compressed, prepend_chr) :
        fsock \in {None} \cup {FileObject(name, gz, lines) :
                                name \in {None, PyStr("s.vcf"), PyStr("s.vcf.gz")},
                                gz \in BOOLEAN},
        filename \in {None, PyStr("x.vcf"), PyStr("x.vcf.gz")},
        compressed \in BOOLEAN, prepend_chr \in BOOLEAN}

---------------------------------------------------------------------------
(* The program: a Reader over a file, a Writer templated on it, and a      *)
(* second Reader over what the Writer wrote.                               *)

\* next() is called until it has signalled the end of the longest file
\* twice
MaxCalls == MaxRecords + 2

Init ==
    /\ \/ file \in Files /\ reader = ReaderArgs(StringIO(file), None, FALSE, FALSE)
       \/ file \in OpenFiles /\ reader \in OpenArgs(file)
    /\ records = <<>>
    /\ out = <<>>
    /\ writer = [t |-> "none"]
    /\ reader2 = [t |-> "none"]
    /\ records2 = <<>>
    /\ err = NoError
    /\ prog = [t |-> "none"]

\* a next() whose line source fails once it has signalled its end
next_fails_after_end(r) ==
    LET Returned(record) ==
            [reader |-> [r EXCEPT !.lines = Tail(r.lines),
                                  !.last = IF IsRaise(record) THEN "error"
                                           ELSE "Record",
                                  !.calls = @ + 1],
             record |-> record]
    IN  IF r.lines = <<>> /\ r.last = "StopIteration"
        THEN [reader |-> [r EXCEPT !.last = "error", !.calls = @ + 1],
              record |-> Raise("ValueError")]
        ELSE IF r.lines = <<>>
        THEN [reader |-> [r EXCEPT !.last = "StopIteration", !.calls = @ + 1],
              record |-> Raise("StopIteration")]
        ELSE Returned(ParseLine(r, Head(r.lines)))

\* Reader.next on the Reader r: [reader, record], record being the Record
\* returned, or the exception raised (StopIteration at the end of the
\* line source)
next(r) ==
    LET Returned(record) ==
            [reader |-> [r EXCEPT !.lines = Tail(r.lines),
                                  !.last = IF IsRaise(record) THEN "error"
                                           ELSE "Record",
                                  !.calls = @ + 1],
             record |-> record]
    IN  IF r.lines = <<>>
        THEN [reader |-> [r EXCEPT !.last = "StopIteration", !.calls = @ + 1],
              record |-> Raise("StopIteration")]
        ELSE Returned(ParseLine(r, Head(r.lines)))

\* reader = vcf.Reader(fsock, filename, compressed, prepend_chr); a call
\* that raises leaves no Reader, args keeps what it was called with
Construct ==
    /\ err = NoError
    /\ reader.t = "args"
    /\ LET Constructed(r) ==
               IF IsRaise(r)
               THEN reader' = [t |-> "failed", args |-> reader] /\ err' = r
               ELSE reader' = r /\ err' = err
       IN  Constructed(ReaderInit(reader, file))
    /\ UNCHANGED <<file, records, out, writer, reader2, records2, prog>>

\* record = reader.next()
ReadNext ==
    /\ err = NoError
    /\ reader.t = "Reader"
    /\ reader.calls < MaxCalls
    /\ LET Returned(res) ==
               /\ reader' = res.reader
               /\ IF res.record = Raise("StopIteration")
                  THEN records' = records /\ err' = err
                  ELSE IF IsRaise(res.record)
                  THEN records' = records /\ err' = res.record
                  ELSE records' = Append(records, res.record) /\ err' = err
       IN  Returned(next(reader))
    /\ UNCHANGED <<file, out, writer, reader2, records2, prog>>

\* writer = vcf.Writer(out, reader)
WriterInit ==
    /\ err = NoError
    /\ reader.t = "Reader"
    /\ writer.t = "none"
    /\ \E om \in Orders(DOMAIN reader.metadata), oi \in Orders(DOMAIN reader.infos),
          of \in Orders(DOMAIN reader.formats), ol \in Orders(DOMAIN reader.filters) :
          out' = WriterHeader(reader, om, oi, of, ol)
    /\ writer' = [t |-> "Writer", written |-> 0]
    /\ UNCHANGED <<file, reader, records, reader2, records2, err, prog>>

\* writer.write_record(record) for the next Record not yet written
WriteRecord ==
    /\ err = NoError
    /\ writer.t = "Writer"
    /\ writer.written < Len(records)
    /\ LET Written(line) ==
               IF IsRaise(line)
               THEN out' = out /\ writer' = writer /\ err' = line
               ELSE /\ out' = Append(out, line.v)
                    /\ writer' = [writer EXCEPT !.written = @ + 1]
                    /\ err' = err
       IN  \E order \in Orders(DOMAIN records[writer.written + 1].INFO) :
              Written(write_record(records[writer.written + 1], order))
    /\ UNCHANGED <<file, reader, records, reader2, records2, prog>>

\* reader2 = vcf.Reader(out), once every Record has been read and written
Reopen ==
    /\ err = NoError
    /\ reader.t = "Reader" /\ reader.last = "StopIteration"
    /\ writer.t = "Writer" /\ writer.written = Len(records)
    /\ reader2.t = "none"
    /\ LET Constructed(r) ==
               IF IsRaise(r)
               THEN reader2' = [t |-> "failed"] /\ err' = r
               ELSE reader2' = r /\ err' = err
       IN  Constructed(ReaderInit(ReaderArgs(StringIO(out), None, FALSE, FALSE), <<>>))
    /\ UNCHANGED <<file, reader, records, out, writer, records2, prog>>

\* record = reader2.next()
ReadNext2 ==
    /\ err = NoError
    /\ reader2.t = "Reader"
    /\ reader2.calls < MaxCalls
    /\ LET Returned(res) ==
               /\ reader2' = res.reader
               /\ IF res.record = Raise("StopIteration")
                  THEN records2' = records2 /\ err' = err
                  ELSE IF IsRaise(res.record)
                  THEN records2' = records2 /\ err' = res.record
                  ELSE records2' = Append(records2, res.record) /\ err' = err
       IN  Returned(next(reader2))
    /\ UNCHANGED <<file, reader, records, out, writer, prog>>

Next ==
    \/ Construct
    \/ ReadNext
    \/ WriterInit
    \/ WriteRecord
    \/ Reopen
    \/ ReadNext2

Spec == Init /\ [][Next]_vars

---------------------------------------------------------------------------
(* Indexed access: Reader.fetch over a tabix-indexed file. *)

\* the fetch calls made on one Reader
MaxFetches == 2

\* Tabixfile.fetch(chrom, s, e) over the indexed file with the text
\* `disk`: its data lines on chrom that overlap the 0-based half-open
\* interval [s, e), in file order; a line at POS p with a REF of n bases
\* covers [p - 1, p - 1 + n)
TabixFetch(disk, chrom, s, e) ==
    LET Overlaps(row) ==
            /\ row[1] = chrom
            /\ int(row[2]).v - 1 < e
            /\ int(row[2]).v - 1 + Len(row[4]) > s
        Selected(line) == ~StartsWith(line, "#") /\ Overlaps(split(line, "\t"))
    IN  SelectSeq(disk, Selected)

\* a fetch that hands the 1-based start to the index as it is
fetch_without_offset(r, chrom, start, end, pysam, disk) ==
    LET Site(res) ==
            [reader |-> res.reader,
             result |-> IF res.record = Raise("StopIteration") THEN None
                        ELSE res.record]
        Region(r1, name) ==
            IF end = None
            THEN Site(next([r1 EXCEPT !.lines = TabixFetch(disk, name, start, start + 1)]))
            ELSE [reader |-> [r1 EXCEPT !.lines = TabixFetch(disk, name, start, end.v),
                                        !.last = "none"],
                  result |-> PyStr("self")]
    IN  IF ~pysam \/ ~Truthy(r.filename)
        THEN [reader |-> r, result |-> Raise("Exception")]
        ELSE IF r.tabix = None /\ ~EndsWith(r.filename.v, ".gz")
        THEN [reader |-> r, result |-> Raise("IOError")]
        ELSE Region([r EXCEPT !.tabix = PyStr("Tabixfile")],
                    IF r.prepend_chr /\ StartsWith(chrom, "chr") THEN From(chrom, 4)
                    ELSE chrom)

\* Reader.fetch(chrom, start, end) on the Reader r, end None where it is
\* omitted: [reader, result], result being the Record or None of a
\* single-site fetch, "self" of a range fetch, or the exception; pysam
\* tells whether the module is importable, disk is the text of the file
\* at r.filename, which has a tabix index where its name ends in .gz
fetch(r, chrom, start, end, pysam, disk) ==
    LET \* try: return self.next() / except StopIteration: return None
        Site(res) ==
            [reader |-> res.reader,
             result |-> IF res.record = Raise("StopIteration") THEN None
                        ELSE res.record]
        \* start = start - 1, then the line source is the index's iterator;
        \* last is "none" again as next() has not been called on it
        Region(r1, name) ==
            IF end = None
            THEN Site(next([r1 EXCEPT !.lines = TabixFetch(disk, name, start - 1, start)]))
            ELSE [reader |-> [r1 EXCEPT !.lines = TabixFetch(disk, name, start - 1, end.v),
                                        !.last = "none"],
                  result |-> PyStr("self")]
    IN  IF ~pysam \/ ~Truthy(r.filename)
        THEN [reader |-> r, result |-> Raise("Exception")]
        ELSE IF r.tabix = None /\ ~EndsWith(r.filename.v, ".gz")
        THEN [reader |-> r, result |-> Raise("IOError")]
        ELSE Region([r EXCEPT !.tabix = PyStr("Tabixfile")],
                    IF r.prepend_chr /\ StartsWith(chrom, "chr") THEN From(chrom, 4)
                    ELSE chrom)

\* position-sorted files of up to three records: single bases at 100 and
\* 103 of chromosome 20, a three-base REF at 101 that covers 101..103,
\* and a record of chromosome X
TabixFiles ==
    LET Line(chrom, pos, ref) ==
            TabLine(<<chrom, pos, ".", ref, "T", "50", "PASS", "NS=3", "GT", "0/1">>)
        Lines == <<Line("20", "100", "A"), Line("20", "101", "ACG"),
                   Line("20", "103", "G"), Line("X", "100", "C")>>
        Pick(keep) == SelectSeq(Lines, LAMBDA line : \E k \in keep : Lines[k] = line)
    IN  {<<FileFormatLine, ColumnHeader(1)>> \o Pick(keep) :
            keep \in (SUBSET (1..Len(Lines))) \ {{}, 1..Len(Lines)}}

\* a Reader is made over a tabix-indexed file as the tests do (from the
\* open file tb.vcf.gz, or from its path), with and without prepend_chr;
\* and in the ways that leave fetch without what it needs: a stream
\* without a name, a file without an index, pysam not installed
FetchInit ==
    /\ file \in TabixFiles
    /\ \E opened \in {<<FileObject(PyStr("tb.vcf.gz"), TRUE, file), None, FALSE, TRUE>>,
                       <<None, PyStr("tb.vcf.gz"), TRUE, TRUE>>,
                       <<StringIO(file), None, FALSE, TRUE>>,
                       <<None, PyStr("tb.vcf"), FALSE, TRUE>>,
                       <<FileObject(PyStr("tb.vcf.gz"), TRUE, file), None, FALSE, FALSE>>} :
          /\ reader = ReaderArgs(opened[1], opened[2], FALSE, opened[3])
          /\ prog = [t |-> "none", pysam |-> opened[4], fetches |-> 0]
    /\ records = <<>>
    /\ out = <<>>
    /\ writer = [t |-> "none"]
    /\ reader2 = [t |-> "none"]
    /\ records2 = <<>>
    /\ err = NoError

\* reader.fetch(chrom, start) or reader.fetch(chrom, start, end) for a
\* chromosome of the file; the caller starts a new list of Records
Fetch ==
    /\ err = NoError
    /\ reader.t = "Reader"
    /\ prog.fetches < MaxFetches
    /\ \E chrom \in {"20", "X", "chr20"}, start \in {100, 103},
          end \in {None, PyInt(103)} :
          LET Returned(res) ==
                  /\ reader' = res.reader
                  /\ IF IsRaise(res.result)
                     THEN err' = res.result /\ prog' = prog
                     ELSE /\ err' = err
                          /\ prog' = [t |-> IF end = None THEN "site" ELSE "range",
                                      pysam |-> prog.pysam,
                                      fetches |-> prog.fetches + 1,
                                      chrom |-> chrom, start |-> start, end |-> end,
                                      result |-> res.result]
          IN  /\ \E k \in 1..Len(file) :
                    split(file[k], "\t")[1]
                      = (IF reader.prepend_chr /\ StartsWith(chrom, "chr")
                         THEN From(chrom, 4) ELSE chrom)
              /\ Returned(fetch(reader, chrom, start, end, prog.pysam, file))
    /\ records' = <<>>
    /\ UNCHANGED <<file, out, writer, reader2, records2>>

FetchNext ==
    \/ Construct
    \/ ReadNext
    \/ Fetch

FetchSpec == FetchInit /\ [][FetchNext]_vars

---------------------------------------------------------------------------
(* The filter tool: vcf_filter.py input filter... *)

\* SiteQuality(args): the site-quality filter of the tool
SiteQuality(args) ==
    [name |-> "site_quality", description |-> "Filter sites by quality",
     threshold |-> args.site_quality]

\* Filter.filter_name: '%s%s' % (self.name, self.threshold)
filter_name(filt) == filt.name \o IntStr(filt.threshold)

\* SiteQuality.__call__(record): record.QUAL where it is below the
\* threshold, None otherwise
SiteQualityCall(filt, record) ==
    LET \* a < b of Python 2 between a QUAL (None, int or float) and an
        \* int: None is below every number
        Less(a, b) ==
            IF a = None THEN TRUE
            ELSE IF a.t = "int" THEN a.v < b
            ELSE a.n < b * a.d
    IN  IF Less(record.QUAL, filt.threshold) THEN record.QUAL ELSE None

\* the filter loop over one record: the filters of the chain from the
\* i-th on applied to the Record; the Record to write, or the exception
RECURSIVE ApplyChain(_, _, _, _)
ApplyChain(chain, i, short_circuit, record) ==
    LET Added(rec) ==
            IF IsRaise(rec) \/ short_circuit THEN rec
            ELSE ApplyChain(chain, i + 1, short_circuit, rec)
    IN  IF i > Len(chain) THEN record
        ELSE IF Truthy(SiteQualityCall(chain[i], record))
        THEN Added(add_filter(record, filter_name(chain[i])))
        ELSE ApplyChain(chain, i + 1, short_circuit, record)

\* inp.filters after the chain has been built: one _Filter for each
\* filter of the chain, under its filter_name
RECURSIVE RegisterFilters(_, _, _)
RegisterFilters(filters, chain, i) ==
    IF i > Len(chain) THEN filters
    ELSE RegisterFilters(Put(filters, filter_name(chain[i]),
                             Filter(filter_name(chain[i]), chain[i].description)),
                         chain, i + 1)

\* the files the tool filters: data lines with QUAL above, at and below
\* the threshold, zero and missing, against the FILTER values of a Reader
FilterFiles ==
    LET Line(pos, qual, filt) ==
            TabLine(<<"20", pos, ".", "A", "T", qual, filt, "NS=3", "GT", "0/1">>)
        Lines ==
            {Line("201", "50", "PASS"), Line("202", "29", "PASS"),
             Line("203", "0", "PASS"), Line("204", ".", "PASS"),
             Line("205", "29", "q10"), Line("206", "29", "q10;s50"),
             Line("207", "29.5", "PASS"), Line("208", "30", "q10")}
    IN  {<<FileFormatLine, FilterLine("q10"), ColumnHeader(1)>> \o body :
            body \in UNION {[1..n -> Lines] : n \in 0..MaxRecords}}

\* the tool started on a file with --site-quality 30, the filter names
\* (sq is the short name, which the tool does not know) and
\* --no-short-circuit or not
FilterInit ==
    /\ file \in FilterFiles
    /\ reader = ReaderArgs(OpenPath(PyStr("in.vcf"), file), None, FALSE, FALSE)
    /\ records = <<>>
    /\ out = <<>>
    /\ writer = [t |-> "none"]
    /\ reader2 = [t |-> "none"]
    /\ records2 = <<>>
    /\ err = NoError
    /\ prog \in {[t |-> "args", site_quality |-> 30, filters |-> names,
                  no_short_circuit |-> nsc] :
                    names \in {<<"site_quality">>, <<"site_quality", "site_quality">>,
                               <<"sq">>},
                    nsc \in BOOLEAN}

\* the tool up to its filter loop: the Reader over the input file, the
\* chain of the named filters, their registration in inp.filters, and the
\* Writer with its header
ToolStart ==
    /\ err = NoError
    /\ prog.t = "args"
    /\ LET Output(inp) ==
               \E om \in Orders(DOMAIN inp.metadata), oi \in Orders(DOMAIN inp.infos),
                  of \in Orders(DOMAIN inp.formats), ol \in Orders(DOMAIN inp.filters) :
                    /\ reader' = inp
                    /\ out' = WriterHeader(inp, om, oi, of, ol)
           Started(inp, chain) ==
               IF IsRaise(inp)
               THEN /\ reader' = [t |-> "failed", args |-> reader] /\ err' = inp
                    /\ UNCHANGED <<out, writer, prog>>
               ELSE IF \E k \in 1..Len(prog.filters) : prog.filters[k] # "site_quality"
               THEN /\ reader' = inp /\ err' = Raise("KeyError")
                    /\ UNCHANGED <<out, writer, prog>>
               ELSE /\ Output([inp EXCEPT !.filters = RegisterFilters(@, chain, 1)])
                    /\ writer' = [t |-> "Writer", written |-> 0]
                    /\ prog' = [t |-> "tool", chain |-> chain,
                                short_circuit |-> ~prog.no_short_circuit]
                    /\ err' = err
       IN  Started(ReaderInit(reader, file),
                   [k \in 1..Len(prog.filters) |-> SiteQuality(prog)])
    /\ UNCHANGED <<file, records, reader2, records2>>

\* one turn of the filter loop: the next Record of the input, the chain
\* applied to it, the Record written; StopIteration ends the loop
ToolStep ==
    /\ err = NoError
    /\ prog.t = "tool"
    /\ LET Written(record, line) ==
               IF IsRaise(line)
               THEN err' = line /\ UNCHANGED <<records, out, writer>>
               ELSE /\ records' = Append(records, record)
                    /\ out' = Append(out, line.v)
                    /\ writer' = [writer EXCEPT !.written = @ + 1]
                    /\ err' = err
           Filtered(record) ==
               IF IsRaise(record)
               THEN err' = record /\ UNCHANGED <<records, out, writer>>
               ELSE \E order \in Orders(DOMAIN record.INFO) :
                       Written(record, write_record(record, order))
           Returned(res) ==
               /\ reader' = res.reader
               /\ IF res.record = Raise("StopIteration")
                  THEN /\ prog' = [prog EXCEPT !.t = "done"]
                       /\ UNCHANGED <<records, out, writer, err>>
                  ELSE /\ prog' = prog
                       /\ Filtered(IF IsRaise(res.record) THEN res.record
                                   ELSE ApplyChain(prog.chain, 1, prog.short_circuit,
                                                   res.record))
       IN  Returned(next(reader))
    /\ UNCHANGED <<file, reader2, records2>>

FilterNext ==
    \/ ToolStart
    \/ ToolStep

FilterSpec == FilterInit /\ [][FilterNext]_vars

---------------------------------------------------------------------------
(* Properties. *)

\* the Records both Readers have returned
AllRecords ==
    {records[i] : i \in 1..Len(records)} \cup {records2[i] : i \in 1..Len(records2)}

\* the i-th data line of the input file, the line records[i] was read from
DataLine(i) == file[Len(reader.header_lines) + 1 + i]

\* the text of the k-th sample column of the i-th data line
SampleColumn(i, k) == splitws(DataLine(i))[9 + k]

\* every genotype of the Record has a gt_type (no tuple-unpacking or int()
\* failure): its called genotypes read <integer><separator><integer>
TypesDefined(rec) ==
    /\ rec.samples # None
    /\ \A k \in 1..Len(rec.samples.v) : ~IsRaise(gt_type(rec.samples.v[k]))

\* the number of Calls of the Record whose gt_type is -1
NumUnrecognized(rec) ==
    Cardinality({k \in 1..Len(rec.samples.v) : gt_type(rec.samples.v[k]) = PyInt(-1)})

\* C2 (as claimed): every Record read from a line with a FORMAT column has as
\* many Calls as the header names samples, whatever the number of sample
\* columns of the line.
C2_SamplesMatchHeader ==
    \A i \in 1..Len(records) :
        records[i].FORMAT # None =>
            Len(records[i].samples.v) = Len(reader.samples)

\* C3 (as claimed): in every Record with FORMAT, the Call at each header
\* position carries the header's sample name at that position, and
\* genotype(s) returns a Call whose sample is s for every header name s.
C3_LookupAligned ==
    \A i \in 1..Len(records) :
        records[i].FORMAT # None =>
            /\ \A k \in 1..Len(reader.samples) :
                  /\ k <= Len(records[i].samples.v)
                  /\ records[i].samples.v[k].sample = reader.samples[k]
            /\ \A k \in 1..Len(reader.samples) :
                  LET call == genotype(records[i], reader.samples[k])
                  IN  call.t = "Call" /\ call.sample = reader.samples[k]

C5_AafFormula ==
    \A rec \in AllRecords :
        (TypesDefined(rec) /\ Len(rec.ALT) <= 1 /\ num_called(rec).v >= 1) =>
            /\ aaf(rec).t = "float"
            /\ aaf(rec).n * 2 * num_called(rec).v
                 = (num_het(rec).v + 2 * num_hom_alt(rec).v) * aaf(rec).d
            /\ (num_called(rec).v = 3 /\ num_hom_alt(rec).v = 1
                  /\ num_het(rec).v = 1) => aaf(rec) = PyFloat(1, 2)

\* a Record with one ALT allele and three called samples, one hom-alt and
\* one het
C5_Witness ==
    \E rec \in AllRecords :
        /\ TypesDefined(rec) /\ Len(rec.ALT) = 1
        /\ num_called(rec) = PyInt(3)
        /\ num_hom_alt(rec) = PyInt(1)
        /\ num_het(rec) = PyInt(1)
        /\ aaf(rec) = PyFloat(1, 2)

\* C6: for every Record with more than one ALT allele, aaf and
\* nucl_diversity are both None, whatever the genotypes.
C6_MultiAllelePunt ==
    \A rec \in AllRecords :
        Len(rec.ALT) > 1 =>
            aaf(rec) = None /\ nucl_diversity(rec) = None

\* a Record with two ALT alleles and samples none of which is called
C6_Witness ==
    \E rec \in AllRecords :
        /\ Len(rec.ALT) = 2
        /\ rec.samples # None /\ Len(rec.samples.v) >= 2
        /\ num_called(rec) = PyInt(0)
        /\ aaf(rec) = None /\ nucl_diversity(rec) = None

\* the position of the separator of a genotype text a<sep>b whose a and b
\* are allele numbers (decimal digits), 0 for any other text
SeparatorAt(gt) ==
    LET ps == {p \in 2..(Len(gt) - 1) :
                 /\ Char(gt, p) \in {"/", "|"}
                 /\ AllDigits(SubSeq(gt, 1, p - 1))
                 /\ AllDigits(From(gt, p + 1))}
    IN  IF ps = {} THEN 0 ELSE CHOOSE p \in ps : TRUE

\* C7: for a sample column holding only the genotype a<sep>b, phased is true
\* iff the separator is '|', gt_type is 0 iff a = b = 0, 2 iff a = b >= 1
\* and 1 iff a # b; for './.' called is false and gt_type is None.
C7_GenotypeClassification ==
    \A i \in 1..Len(records) :
        (records[i].FORMAT = PyStr("GT")) =>
            \A k \in 1..Len(records[i].samples.v) :
                LET gt == SampleColumn(i, k)
                    call == records[i].samples.v[k]
                    p == SeparatorAt(gt)
                    a == DigitsVal(SubSeq(gt, 1, p - 1))
                    b == DigitsVal(From(gt, p + 1))
                IN  /\ gt = "./." => (~call.called /\ gt_type(call) = None)
                    /\ p # 0 =>
                        /\ call.called
                        /\ phased(call) <=> (Char(gt, p) = "|")
                        /\ (gt_type(call) = PyInt(0)) <=> (a = 0 /\ b = 0)
                        /\ (gt_type(call) = PyInt(2)) <=> (a = b /\ a >= 1)
                        /\ (gt_type(call) = PyInt(1)) <=> (a # b)
                    /\ gt = "0|1" => (phased(call) /\ gt_type(call) = PyInt(1))
                    /\ gt = "0/0" => (~phased(call) /\ gt_type(call) = PyInt(0))

\* the genotype 2|1 has been read as the only sample: phased and het
C7_Witness ==
    /\ Len(records) = 1
    /\ records[1].FORMAT = PyStr("GT")
    /\ Len(records[1].samples.v) = 1
    /\ SampleColumn(1, 1) = "2|1"
    /\ phased(records[1].samples.v[1])
    /\ gt_type(records[1].samples.v[1]) = PyInt(1)

\* l.samples == r.samples: lists of equal length whose Calls are equal
\* under _Call.__eq__ (equal sites, sample names and gt_types)
SamplesEq(l, r) ==
    /\ l.samples.t = "list" /\ r.samples.t = "list"
    /\ Len(l.samples.v) = Len(r.samples.v)
    /\ \A k \in 1..Len(l.samples.v) :
          /\ RecordEq(l, r)
          /\ l.samples.v[k].sample = r.samples.v[k].sample
          /\ gt_type(l.samples.v[k]) = gt_type(r.samples.v[k])

\* every Record of the first Reader has genotype columns, one per sample
\* the header names
FullSampleColumns ==
    \A i \in 1..Len(records) :
        /\ records[i].FORMAT # None
        /\ Len(records[i].samples.v) = Len(reader.samples)

\* C1 (as claimed): once the first Reader has read its file to the end,
\* writing its Records in order with a Writer templated on it and re-reading
\* the output raises nothing and yields the same samples, formats and
\* infos, and record by record an equal Record with equal Calls.
C1_RoundTrip ==
    (reader.t = "Reader" /\ reader.last = "StopIteration" /\ FullSampleColumns) =>
        /\ err = NoError
        /\ reader2.t = "Reader" =>
              /\ reader2.samples = reader.samples
              /\ reader2.formats = reader.formats
              /\ reader2.infos = reader.infos
        /\ \A i \in 1..Len(records2) :
              /\ i <= Len(records)
              /\ RecordEq(records[i], records2[i])
              /\ SamplesEq(records[i], records2[i])
        /\ (reader2.t = "Reader" /\ reader2.last = "StopIteration") =>
              Len(records2) = Len(records)

\* the header block of the input file: its leading lines that start with ##
HeaderCount ==
    LET stops == {k \in 1..Len(file) : ~StartsWith(file[k], "##")}
    IN  IF stops = {} THEN Len(file)
        ELSE (CHOOSE k \in stops : \A j \in stops : k <= j) - 1

\* an ##INFO, ##FILTER or ##FORMAT line that is not exactly of the shape
\* ##KIND=<ID=...,...,Description="...">: its pattern finds no match, or the
\* line goes on after the closing ">
Malformed(raw) ==
    LET line == strip(raw)
    IN  \/ StartsWith(line, "##INFO")
            /\ (info_pattern(line) = NoMatch \/ ~EndsWith(line, "\">"))
        \/ StartsWith(line, "##FILTER")
            /\ (filter_pattern(line) = NoMatch \/ ~EndsWith(line, "\">"))
        \/ StartsWith(line, "##FORMAT")
            /\ (format_pattern(line) = NoMatch \/ ~EndsWith(line, "\">"))

\* C9 (as claimed): once construction has run on a file whose header block
\* holds an ##INFO, ##FILTER or ##FORMAT line that does not match its
\* grammar, it has raised the header-format error (SyntaxError) and there
\* is no Reader and no Record.
C9_MalformedHeaderRejected ==
    (reader.t # "args" /\ \E k \in 1..HeaderCount : Malformed(file[k])) =>
        /\ reader.t = "failed"
        /\ err = Raise("SyntaxError")
        /\ records = <<>>

\* the INFO column of a data line: its entries, each split at '='
InfoEntries(line) ==
    LET q == split(splitws(line)[8], ";")
    IN  [k \in 1..Len(q) |-> split(q[k], "=")]

\* the entry is key=value with the key of Integer or Float type
IsNumericEntry(entry) ==
    Len(entry) = 2 /\ InfoEntryType(reader.infos, entry) \in {"Integer", "Float"}

\* a sites-only line (eight columns) whose INFO entries are all numeric
\* with every value token either '.' or a number
CleanNumericLine(line) ==
    LET row == splitws(line)
    IN  /\ Len(row) = 8 /\ AllDigits(row[2]) /\ AllDigits(row[6])
        /\ \A k \in 1..Len(InfoEntries(line)) :
              LET entry == InfoEntries(line)[k]
              IN  /\ IsNumericEntry(entry)
                  /\ \A n \in 1..Len(split(entry[2], ",")) :
                        LET tok == split(entry[2], ",")[n]
                        IN  tok = "." \/ ~IsRaise(float(tok))

\* C8: for every INFO entry whose type is Integer or Float, a value token
\* '.' is decoded as None at its position (the whole value when the key is
\* declared with Number=1 and the token comes first), never as the string
\* ".", and reading the line raises nothing.
C8_MissingValueIsNone ==
    /\ \A i \in 1..Len(records) :
          \A k \in 1..Len(InfoEntries(DataLine(i))) :
              LET entry == InfoEntries(DataLine(i))[k]
                  toks == split(entry[2], ",")
                  val == records[i].INFO[entry[1]]
                  one == entry[1] \in DOMAIN reader.infos
                           /\ reader.infos[entry[1]].num = PyInt(1)
              IN  IsNumericEntry(entry) =>
                    IF one
                    THEN /\ val # PyStr(".")
                         /\ (toks[1] = ".") <=> (val = None)
                    ELSE /\ val.t = "list" /\ Len(val.v) = Len(toks)
                         /\ \A n \in 1..Len(toks) :
                               /\ val.v[n] # PyStr(".")
                               /\ (toks[n] = ".") <=> (val.v[n] = None)
    /\ (reader.t = "Reader" /\ reader.last = "error") =>
          ~CleanNumericLine(DataLine(Len(records) + 1))

\* a Record whose INFO value 3,. of a Float key declared Number=A was decoded
\* to the list [3.0, None]
C8_Witness ==
    /\ Len(records) = 1
    /\ splitws(DataLine(1))[8] = "K=3,."
    /\ reader.infos["K"].type = "Float"
    /\ reader.infos["K"].num = None
    /\ records[1].INFO["K"] = PyList(<<PyFloat(3, 1), None>>)

\* C10: the minimal file (INFO NS Integer Number=1, sample S1, the line
\* 20 100 . A T 50 PASS NS=3 GT 0/1) yields exactly one Record with
\* CHROM '20', POS 100, REF 'A', ALT ['T'], QUAL the integer 50,
\* INFO {NS: 3}, and one Call with gt_type 1, unphased, gt_bases 'A/T';
\* the next() after it raises StopIteration.
C10_MinimalFile ==
    file = MinimalFile =>
        /\ err = NoError
        /\ reader.t # "failed"
        /\ Len(records) <= 1
        /\ reader.t = "Reader" =>
              /\ reader.samples = <<"S1">>
              /\ reader.last = "none" => records = <<>>
              /\ reader.last \in {"Record", "StopIteration"} => Len(records) = 1
              /\ (reader.last = "Record") =>
                    next(reader).record = Raise("StopIteration")
        /\ \A i \in 1..Len(records) :
              LET rec == records[i]
              IN  /\ rec.CHROM = "20" /\ rec.POS = 100 /\ rec.REF = "A"
                  /\ rec.ALT = <<PyStr("T")>>
                  /\ rec.QUAL = PyInt(50)
                  /\ rec.INFO = [NS |-> PyInt(3)]
                  /\ Len(rec.samples.v) = 1
                  /\ gt_type(rec.samples.v[1]) = PyInt(1)
                  /\ ~phased(rec.samples.v[1])
                  /\ gt_bases(rec, rec.samples.v[1]) = PyStr("A/T")

\* the minimal file has been read to the end and gave one Record
C10_Witness ==
    /\ file = MinimalFile
    /\ reader.t = "Reader" /\ reader.last = "StopIteration"
    /\ Len(records) = 1
    /\ gt_bases(records[1], records[1].samples.v[1]) = PyStr("A/T")

---------------------------------------------------------------------------
(* Construction. *)

\* how many of (stream, path) the constructor was called with
Supplied(args) ==
    (IF args.fsock # None THEN 1 ELSE 0) + (IF args.filename # None THEN 1 ELSE 0)

\* the name the Reader is to keep: the path where one is given, the name
\* of the stream otherwise
NameOf(args) ==
    IF args.filename # None THEN args.filename ELSE args.fsock.name

\* gzip decompression is applied exactly where the bytes to read (of the
\* stream where one is given, of the file at the path otherwise) are gzip
EncodingMatches(args) ==
    (IF args.fsock # None THEN args.fsock.gz ELSE EndsWith(args.filename.v, ".gz"))
        = (args.compressed \/ (NameOf(args) # None /\ EndsWith(NameOf(args).v, ".gz")))

\* the file has a column-header line after declarations that all match
ValidHeader ==
    /\ HeaderCount < Len(file)
    /\ \A k \in 1..HeaderCount : ~Malformed(file[k])

C12_TruncatedHeaderRejected ==
    (/\ reader.t # "args"
     /\ HeaderCount = Len(file)
     /\ \A k \in 1..HeaderCount : ~Malformed(file[k])) =>
        /\ reader.t = "failed"
        /\ err = Raise("SyntaxError")
        /\ err # Raise("StopIteration")

---------------------------------------------------------------------------
(* Iteration. *)

\* C13: over a file read as it is encoded, every call of next() on the
\* Reader either finds no line left, raises StopIteration and returns no
\* Record, or consumes exactly the next data line of the file and returns
\* the Record of that line (or raises on it); once next() has raised
\* StopIteration the Reader stays exhausted and no Record is added.
C13_ReaderLifecycle ==
    [][(reader.t = "Reader" /\ reader'.t = "Reader"
            /\ EncodingMatches(reader.args)) =>
        LET \* a call of next() after `consumed` lines of the file (its
            \* header block, the column-header line and one line for each
            \* Record returned)
            NextCall(consumed) ==
                /\ reader'.calls = reader.calls + 1
                /\ IF consumed = Len(file)
                   THEN /\ reader'.last = "StopIteration"
                        /\ records' = records /\ err' = NoError
                   ELSE /\ reader'.lines = SubSeq(file, consumed + 2, Len(file))
                        /\ reader'.last \in {"Record", "error"}
                        /\ reader'.last = "error" => IsRaise(err')
                        /\ reader'.last = "Record" =>
                              /\ err' = NoError
                              /\ records' = Append(records,
                                                   ParseLine(reader, file[consumed + 1]))
                              /\ records'[Len(records')].POS
                                    = int(splitws(file[consumed + 1])[2]).v
        IN  /\ reader.last = "StopIteration" =>
                  reader'.last = "StopIteration" /\ records' = records
            /\ reader'.calls # reader.calls =>
                  NextCall(Len(reader.header_lines) + 1 + Len(records))]_vars

\* the Reader has returned the Records of MaxRecords data lines in file
\* order and then raised StopIteration on two calls of next()
C13_Witness ==
    /\ reader.t = "Reader"
    /\ Len(records) = MaxRecords
    /\ \A k \in 1..Len(records) : records[k].POS = int(splitws(DataLine(k))[2]).v
    /\ reader.last = "StopIteration"
    /\ reader.calls = Len(records) + 2

---------------------------------------------------------------------------
(* The FILTER column. *)

\* the raw FILTER token of the i-th data line
FilterToken(i) == splitws(DataLine(i))[7]

\* C16: for every Record the Reader returns, a raw FILTER token holding
\* ';' gives the sequence of the names between the ';' in order, the
\* token PASS gives an absent FILTER, and any other token is kept as it
\* is as one string.
C16_FilterParsing ==
    \A i \in 1..Len(records) :
        IF Contains(FilterToken(i), ";")
        THEN /\ records[i].FILTER.t = "list"
             /\ Len(records[i].FILTER.v) = Cardinality(Occurrences(FilterToken(i), ";")) + 1
             /\ \A k \in 1..Len(records[i].FILTER.v) :
                   /\ records[i].FILTER.v[k].t = "str"
                   /\ ~Contains(records[i].FILTER.v[k].v, ";")
             /\ join(";", [k \in 1..Len(records[i].FILTER.v) |->
                               records[i].FILTER.v[k].v]) = FilterToken(i)
        ELSE IF FilterToken(i) = "PASS" THEN records[i].FILTER = None
        ELSE records[i].FILTER = PyStr(FilterToken(i))

\* Records read from a line with two failed filters, from a line with PASS
\* and from a line with one failed filter
C16_Witness ==
    /\ Len(records) = 2
    /\ FilterToken(1) = "q10;s50"
    /\ records[1].FILTER = PyList(<<PyStr("q10"), PyStr("s50")>>)
    /\ FilterToken(2) = "PASS" /\ records[2].FILTER = None

---------------------------------------------------------------------------
(* What the Writer writes. *)

\* the kind of a written line: 1 a ##key=value metadata line, 2 an ##INFO,
\* 3 a ##FORMAT and 4 a ##FILTER declaration, 5 the column-header line,
\* 6 a record line
LineKind(line) ==
    IF StartsWith(line, "##INFO=<") THEN 2
    ELSE IF StartsWith(line, "##FORMAT=<") THEN 3
    ELSE IF StartsWith(line, "##FILTER=<") THEN 4
    ELSE IF StartsWith(line, "##") THEN 1
    ELSE IF StartsWith(line, "#CHROM") THEN 5
    ELSE 6

\* the lines of the output of a kind
OfKind(kind) == {k \in 1..Len(out) : LineKind(out[k]) = kind}

\* C19: nothing is written before the Writer is constructed; once it is,
\* the output holds one metadata line for each metadata entry of the
\* template, then one ##INFO line for each INFO declaration, then the
\* ##FORMAT lines, then the ##FILTER lines, then exactly one
\* column-header line of the fixed field names and the template's sample
\* names, and after it one line for each write_record call, in call
\* order.
C19_WriterOrdering ==
    /\ writer.t = "none" => out = <<>>
    /\ writer.t = "Writer" =>
          /\ \A j, k \in 1..Len(out) : j < k => LineKind(out[j]) <= LineKind(out[k])
          /\ Cardinality(OfKind(1)) = Cardinality(DOMAIN reader.metadata)
          /\ Cardinality(OfKind(2)) = Cardinality(DOMAIN reader.infos)
          /\ Cardinality(OfKind(3)) = Cardinality(DOMAIN reader.formats)
          /\ Cardinality(OfKind(4)) = Cardinality(DOMAIN reader.filters)
          /\ Cardinality(OfKind(5)) = 1
          /\ \A k \in OfKind(5) :
                split(strip(out[k]), "\t") = fixed_fields \o reader.samples
          /\ Cardinality(OfKind(6)) = writer.written
          /\ \A j \in 1..writer.written :
                LET Fields(line) ==
                        /\ line[1] = records[j].CHROM
                        /\ line[2] = IntStr(records[j].POS)
                IN  Fields(split(out[Len(out) - writer.written + j], "\t"))

\* a Writer over a template with metadata, INFO, FORMAT and FILTER
\* declarations that has written MaxRecords records of different POS
C19_Witness ==
    /\ writer.t = "Writer"
    /\ writer.written = MaxRecords
    /\ records[1].POS # records[2].POS
    /\ \A kind \in 1..6 : OfKind(kind) # {}

\* C20 (as claimed): every line write_record has written holds '.' in its
\* ID column where the Record's ID is absent and '.' in its QUAL column
\* where the Record's QUAL is absent, and neither column is empty.
C20_AbsentFixedFields ==
    writer.t = "Writer" =>
        \A j \in 1..writer.written :
            LET Fields(line) ==
                    /\ line[3] # "" /\ line[6] # ""
                    /\ records[j].ID = None => line[3] = "."
                    /\ records[j].QUAL = None => line[6] = "."
            IN  Fields(split(out[Len(out) - writer.written + j], "\t"))

---------------------------------------------------------------------------
(* The filter tool's output. *)

\* C17 (as claimed): in the filter tool, add_filter never fails on the
\* FILTER of a Record the Reader returned, and every Record the tool has
\* written holds either the FILTER it was read with or, after k calls of
\* add_filter(n), the names it was read with followed by k times n,
\* joined by ';' (exactly n, k times, where it was read as absent).
C17_AddFilterAccumulates ==
    prog.t \in {"tool", "done"} =>
        /\ err # Raise("TypeError")
        /\ \A j \in 1..Len(records) :
              LET \* the names the Record was read with
                  Names(filt) ==
                      IF filt = None THEN <<>>
                      ELSE IF filt.t = "list" THEN [k \in 1..Len(filt.v) |-> filt.v[k].v]
                      ELSE <<filt.v>>
              IN  \/ records[j].FILTER = ParseFilter(FilterToken(j))
                  \/ \E k \in 1..Len(prog.chain) :
                        records[j].FILTER
                          = PyStr(join(";", Names(ParseFilter(FilterToken(j)))
                                            \o [c \in 1..k |-> filter_name(prog.chain[c])]))

\* C18 (as claimed): the j-th line the filter tool has written is the
\* record of the j-th data line of the input, and its FILTER column holds
\* the name of the site-quality filter exactly where the QUAL of that data
\* line is below the threshold (0 included); once the tool has ended
\* there is one written line for each data line.
C18_FilterToolResult ==
    prog.t \in {"tool", "done"} =>
        /\ \A j \in 1..writer.written :
              LET \* the QUAL read from the data line is a number below
                  \* the threshold
                  Below(qual, threshold) ==
                      /\ qual # None
                      /\ IF qual.t = "int" THEN qual.v < threshold
                         ELSE qual.n < threshold * qual.d
                  Fields(line) ==
                      /\ line[2] = splitws(DataLine(j))[2]
                      /\ (\E k \in 1..Len(split(line[7], ";")) :
                              split(line[7], ";")[k] = filter_name(prog.chain[1]))
                          <=> Below(ParseQual(splitws(DataLine(j))[6]),
                                    prog.chain[1].threshold)
              IN  Fields(split(out[Len(out) - writer.written + j], "\t"))
        /\ prog.t = "done" =>
              writer.written = Len(file) - Len(reader.header_lines) - 1

---------------------------------------------------------------------------
(* Indexed access. *)

\* C14 (as claimed): a single-site fetch(chrom, start) that has returned
\* gave the Record of the data line on chrom whose POS is start where the
\* file has one, and None where no data line on chrom begins at start,
\* also where a line that begins earlier covers start; it has not raised
\* StopIteration.
C14_SingleSiteFetch ==
    prog.t = "site" =>
        LET \* the chromosome name the index is asked for
            QueryChrom ==
                IF reader.prepend_chr /\ StartsWith(prog.chrom, "chr")
                THEN From(prog.chrom, 4) ELSE prog.chrom
            AtStart(line) ==
                /\ ~StartsWith(line, "#")
                /\ split(line, "\t")[1] = QueryChrom
                /\ split(line, "\t")[2] = IntStr(prog.start)
            Check(found) ==
                IF found # <<>>
                THEN /\ prog.result # None
                     /\ prog.result.POS = prog.start
                     /\ prog.result = ParseLine(reader, found[1])
                ELSE prog.result = None
        IN  /\ err # Raise("StopIteration")
            /\ Check(SelectSeq(file, AtStart))

\* C15: over a file of single-base records, after a range fetch(chrom,
\* start, end), whatever was read or fetched before, fetch has returned
\* the Reader itself and the Records iterated since then, together with
\* the lines still to come, are exactly the data lines on chrom with POS
\* in start..end, in file order; the Reader signals exhaustion once they
\* have all been returned.
C15_RangeFetch ==
    (/\ prog.t = "range"
     /\ \A k \in 1..Len(file) :
           StartsWith(file[k], "#") \/ Len(split(file[k], "\t")[4]) = 1) =>
        LET QueryChrom ==
                IF reader.prepend_chr /\ StartsWith(prog.chrom, "chr")
                THEN From(prog.chrom, 4) ELSE prog.chrom
            InRange(line) ==
                /\ ~StartsWith(line, "#")
                /\ split(line, "\t")[1] = QueryChrom
                /\ int(split(line, "\t")[2]).v \in prog.start..prog.end.v
            Check(expected) ==
                /\ Len(records) + Len(reader.lines) = Len(expected)
                /\ reader.lines = SubSeq(expected, Len(records) + 1, Len(expected))
                /\ \A k \in 1..Len(records) :
                      /\ records[k] = ParseLine(reader, expected[k])
                      /\ records[k].POS \in prog.start..prog.end.v
                /\ reader.last = "StopIteration" => Len(records) = Len(expected)
                /\ reader.last = "none" => records = <<>>
        IN  /\ prog.result = PyStr("self")
            /\ err = NoError
            /\ Check(SelectSeq(file, InRange))

\* a second fetch, over the range 100..103 of a file of three single-base
\* records after an earlier read, has been iterated to its end: it gave
\* the two records of chromosome 20 and then StopIteration
C15_Witness ==
    /\ prog.t = "range" /\ prog.fetches = MaxFetches
    /\ Len(file) - Len(reader.header_lines) - 1 = 3
    /\ \A k \in 1..Len(file) :
          StartsWith(file[k], "#") \/ Len(split(file[k], "\t")[4]) = 1
    /\ prog.start = 100 /\ prog.end = PyInt(103)
    /\ Len(records) = 2
    /\ records[1].POS = 100 /\ records[2].POS = 103
    /\ reader.last = "StopIteration"
    /\ reader.calls > 3

---------------------------------------------------------------------------
(* The FILTER and INFO columns the Writer writes. *)

\* C21 (as claimed): every line write_record has written holds in its
\* FILTER column '.' where the Record's FILTER is absent, the name where
\* it is one name and the names joined by ';' where it is a sequence of
\* names, and every Record re-read from the output has the FILTER of the
\* Record it was written from.
C21_WriterFilterColumn ==
    writer.t = "Writer" =>
        /\ \A j \in 1..writer.written :
              LET Column(filt, tok) ==
                      IF filt = None THEN tok = "."
                      ELSE IF filt.t = "str" THEN tok = filt.v
                      ELSE tok = join(";", [k \in 1..Len(filt.v) |-> filt.v[k].v])
              IN  Column(records[j].FILTER,
                         split(out[Len(out) - writer.written + j], "\t")[7])
        /\ \A i \in 1..Len(records2) :
              i <= Len(records) /\ records2[i].FILTER = records[i].FILTER

\* C22 (as claimed): every line write_record has written holds in its INFO
\* column the Record's INFO entries joined by ';' in some order of the
\* keys, an entry whose value is True as the bare key and every other
\* entry as key=value, a sequence comma-joined and an absent value as '.'.
C22_WriterInfoColumn ==
    writer.t = "Writer" =>
        \A j \in 1..writer.written :
            LET Item(y) == IF y = None THEN "." ELSE str(y)
                Value(y) ==
                    IF y.t = "list"
                    THEN join(",", [k \in 1..Len(y.v) |-> Item(y.v[k])])
                    ELSE Item(y)
                Entry(key, y) ==
                    IF y = PyBool(TRUE) THEN key ELSE key \o "=" \o Value(y)
                Column(info, tok) ==
                    \E order \in Orders(DOMAIN info) :
                        tok = join(";", [k \in 1..Len(order) |->
                                            Entry(order[k], info[order[k]])])
            IN  Column(records[j].INFO,
                       split(out[Len(out) - writer.written + j], "\t")[8])

---------------------------------------------------------------------------
(* gt_bases against the alleles of the owning Record. *)

\* C23: for every Call of a Record the Reader returned whose sample column
\* holds only a genotype: an uncalled Call ('./.') has gt_bases absent; a
\* called Call with genotype a<sep>b (a, b integers) never makes gt_bases
\* raise; where a or b is past the end of [REF] + ALT, gt_bases is absent
\* and the diagnostic is written; where both index a base of [REF] + ALT,
\* gt_bases is the two bases joined by the genotype's own separator and no
\* diagnostic is written.
C23_GtBasesLookup ==
    \A i \in 1..Len(records) :
        (records[i].FORMAT = PyStr("GT")) =>
            \A k \in 1..Len(records[i].samples.v) :
                LET Past(alleles, a) == a >= Len(alleles)
                    At(alleles, a) ==
                        alleles[IF a >= 0 THEN a + 1 ELSE Len(alleles) + a + 1]
                    Looked(alleles, sep, a, b, res) ==
                        /\ ~IsRaise(res.value)
                        /\ (Past(alleles, a) \/ Past(alleles, b)) =>
                              (res.value = None /\ res.diagnostic)
                        /\ (/\ ~Past(alleles, a) /\ ~Past(alleles, b)
                            /\ At(alleles, a) # None /\ At(alleles, b) # None) =>
                              /\ res.value = PyStr(At(alleles, a).v \o sep
                                                   \o At(alleles, b).v)
                              /\ ~res.diagnostic
                    Pair(alleles, sep, parts, res) ==
                        (/\ Len(parts) = 2
                         /\ int(parts[1]).t = "int" /\ int(parts[2]).t = "int"
                         /\ int(parts[1]).v >= -Len(alleles)
                         /\ int(parts[2]).v >= -Len(alleles)) =>
                            Looked(alleles, sep, int(parts[1]).v, int(parts[2]).v, res)
                    Genotype(rec, gt, sep, res) ==
                        IF gt = "./."
                        THEN res.value = None /\ ~res.diagnostic
                        ELSE Pair(<<PyStr(rec.REF)>> \o rec.ALT, sep,
                                  split(gt, sep), res)
                    Column(rec, gt, call) ==
                        Genotype(rec, gt, IF Contains(gt, "|") THEN "|" ELSE "/",
                                 gt_bases_full(rec, call))
                IN  Column(records[i], SampleColumn(i, k), records[i].samples.v[k])

\* the genotype 0/2 has been read under one ALT allele: allele 2 is past
\* the end of [REF] + ALT, gt_bases is absent and the diagnostic is written
C23_Witness ==
    /\ Len(records) = 1
    /\ records[1].FORMAT = PyStr("GT")
    /\ Len(records[1].samples.v) = 1
    /\ SampleColumn(1, 1) = "0/2"
    /\ Len(records[1].ALT) = 1
    /\ records[1].samples.v[1].called
    /\ gt_bases_full(records[1], records[1].samples.v[1]) =
          [value |-> None, diagnostic |-> TRUE]

---------------------------------------------------------------------------
(* Decoding of typed fields: files whose header declares (or leaves       *)
(* undeclared) the field a data line holds, read by a Reader.             *)

\* an INFO key K (not reserved) or DP (reserved, Integer) declared with
\* every type and several cardinalities, or nothing declared, against INFO
\* columns holding K, DP and the unknown key U, with a value and bare
InfoTypeFiles ==
    {<<FileFormatLine>> \o decl \o
     <<ColumnHeader(0),
       TabLine(<<"20", "100", ".", "A", "T", "50", "PASS", info>>)>> :
        decl \in {<<>>} \cup {<<InfoLine(id, number, type)>> :
                                id \in {"K", "DP"}, number \in {"0", "1", "2", "."},
                                type \in InfoTypes},
        info \in {"K=78", "K=7,8", "K", "DP=7", "DP", "U=7", "U", "DP=5;K=78"}}

\* a FORMAT key X (not reserved) or DP (reserved, Integer) declared with
\* several types and cardinalities, or nothing declared, against one
\* sample column, GT first or second, called or './.'
FormatTypeFiles ==
    {<<FileFormatLine>> \o decl \o
     <<ColumnHeader(1),
       TabLine(<<"20", "100", ".", "A", "T", "50", "PASS", "NS=3"
                 , col[1], col[2]>>)>> :
        decl \in {<<>>} \cup {<<FormatLine(id, number, type)>> :
                                id \in {"X", "DP"}, number \in {"1", "2", "."},
                                type \in {"Integer", "Float", "String",
                                          "Character", "Anything"}},
        col \in {<<"GT:X", "0/1:7">>, <<"GT:X", "0/1:7,8">>, <<"GT:X", "./.:7">>,
                 <<"X:GT", "7:./.">>, <<"X:GT", "7:0/1">>,
                 <<"GT:X:DP", "./.:7:8">>, <<"GT:X:DP", "0|1:7:8">>,
                 <<"GT:DP", "0/1:5">>, <<"GT:X", "0/1,2:7">>}}

\* generic ##key=value lines, with one and with several '='
MetaFiles ==
    {<<meta, ColumnHeader(1),
       TabLine(<<"20", "100", ".", "A", "T", "50", "PASS", "NS=3", "GT", "0/1">>)>> :
        meta \in {FileFormatLine, "##source=prog\n", "##cmd=run a=1\n",
                  "##a=b=c\n", "##filter=\"QUAL=30\"\n"}}

\* a Reader over the text of one of the files
DecodeInit ==
    /\ file \in InfoTypeFiles \cup FormatTypeFiles \cup MetaFiles
    /\ reader = ReaderArgs(StringIO(file), None, FALSE, FALSE)
    /\ records = <<>>
    /\ out = <<>>
    /\ writer = [t |-> "none"]
    /\ reader2 = [t |-> "none"]
    /\ records2 = <<>>
    /\ err = NoError
    /\ prog = [t |-> "none"]

DecodeNext ==
    \/ Construct
    \/ ReadNext

DecodeSpec == DecodeInit /\ [][DecodeNext]_vars

---------------------------------------------------------------------------
(* The type and the value of an INFO entry. *)

\* C24 (as claimed): for every entry of the INFO column of the data line,
\* the type the Reader resolves is the one the file's ##INFO header declares
\* for the key, else the one of the reserved table, else String for
\* key=value and Flag for a bare key; and reading the line raises nothing
\* and gives a Record whose INFO holds a value for every key of the column.
C24_InfoTypeResolution ==
    (reader.t = "Reader" /\ file \in InfoTypeFiles) =>
        LET Declared(key) ==
                {type \in InfoTypes :
                    \E number \in {"0", "1", "2", "."} :
                        \E k \in 1..Len(file) : file[k] = InfoLine(key, number, type)}
            Expected(entry) ==
                IF Declared(entry[1]) # {} THEN Declared(entry[1])
                ELSE IF entry[1] \in DOMAIN RESERVED_INFO
                THEN {RESERVED_INFO[entry[1]]}
                ELSE IF Len(entry) > 1 THEN {"String"}
                ELSE {"Flag"}
            Resolved(entries) ==
                /\ \A k \in 1..Len(entries) :
                      Expected(entries[k]) = {InfoEntryType(reader.infos, entries[k])}
                /\ reader.calls >= 1 =>
                      /\ err = NoError
                      /\ Len(records) = 1
                      /\ \A k \in 1..Len(entries) :
                            entries[k][1] \in DOMAIN records[1].INFO
        IN  Resolved(InfoEntries(DataLine(1)))

\* C25 (as claimed): for every entry key=value of the INFO column and every
\* field other than GT of the sample column of a line the Reader has read,
\* the decoded value is a bare scalar exactly when the file declares the
\* key with Number=1 (the whole value text where it is one token), and a
\* sequence with one element per comma-separated token in every other
\* case.
C25_CardinalityCollapse ==
    (reader.t = "Reader" /\ Len(records) = 1) =>
        LET Types == InfoTypes \cup {"Anything"}
            One(key) ==
                \E type \in Types :
                    \E k \in 1..Len(file) :
                        file[k] \in {InfoLine(key, "1", type),
                                     FormatLine(key, "1", type)}
            Scalar(val, toks) ==
                /\ val.t \in {"int", "float", "str"}
                /\ Len(toks) = 1 =>
                      val \in {int(toks[1]), float(toks[1]), PyStr(toks[1])}
            Sequence(val, toks) ==
                /\ val.t = "list"
                /\ Len(val.v) = Len(toks)
            Value(key, val, toks) ==
                IF One(key) THEN Scalar(val, toks) ELSE Sequence(val, toks)
            Decoded(entries, info) ==
                \A k \in 1..Len(entries) :
                    Len(entries[k]) = 2 =>
                        Value(entries[k][1], info[entries[k][1]],
                              split(entries[k][2], ","))
            Fields(fmt, cols, data) ==
                \A k \in 1..Len(fmt) :
                    (fmt[k] # "GT" /\ data[fmt[k]] # None) =>
                        Value(fmt[k], data[fmt[k]], split(cols[k], ","))
        IN  /\ file \in InfoTypeFiles =>
                  Decoded(InfoEntries(DataLine(1)), records[1].INFO)
            /\ file \in FormatTypeFiles =>
                  Fields(split(records[1].FORMAT.v, ":"),
                         split(SampleColumn(1, 1), ":"),
                         records[1].samples.v[1].data)

\* C26 (as claimed): for every entry key=value of the INFO column whose
\* resolved type is String or Character, and every field other than GT of
\* a called sample whose resolved type is neither Integer, Float nor
\* Numeric, reading the line raises nothing and the decoded value is made
\* of the comma-separated tokens of the entry's own text, kept as strings
\* (the sequence of them, or the one token where the key is declared with
\* Number=1).
C26_StringLikeCoercion ==
    (reader.t = "Reader" /\ reader.calls >= 1) =>
        LET Strs(toks) == PyList([k \in 1..Len(toks) |-> PyStr(toks[k])])
            Own(val, toks) == val = Strs(toks) \/ val = PyStr(toks[1])
            Decoded(entries) ==
                \A k \in 1..Len(entries) :
                    (/\ Len(entries[k]) = 2
                     /\ InfoEntryType(reader.infos, entries[k])
                            \in {"String", "Character"}) =>
                        /\ err = NoError /\ Len(records) = 1
                        /\ Own(records[1].INFO[entries[k][1]],
                               split(entries[k][2], ","))
            Fields(fmt, cols) ==
                \A k \in 1..Len(fmt) :
                    (/\ fmt[k] # "GT"
                     /\ FormatEntryType(reader.formats, fmt[k])
                            \notin {"Integer", "Float", "Numeric"}) =>
                        /\ err = NoError /\ Len(records) = 1
                        /\ records[1].samples.v[1].data[fmt[k]] # None =>
                              Own(records[1].samples.v[1].data[fmt[k]],
                                  split(cols[k], ","))
        IN  /\ file \in InfoTypeFiles => Decoded(InfoEntries(DataLine(1)))
            /\ file \in FormatTypeFiles =>
                  Fields(split(splitws(DataLine(1))[9], ":"),
                         split(SampleColumn(1, 1), ":"))

---------------------------------------------------------------------------
(* The missing genotype of a sample column. *)

\* C27 (as claimed): for the sample column of a line the Reader has read,
\* where its GT token is './.' the Call's data holds an absent GT and an
\* absent value for every other FORMAT field; where it is any other token,
\* data['GT'] is that token as a string, character for character.
C27_MissingGenotype ==
    (/\ reader.t = "Reader" /\ Len(records) = 1
     /\ records[1].FORMAT # None /\ Len(records[1].samples.v) >= 1) =>
        LET Fields(fmt, cols, data) ==
                \A g \in 1..Min(Len(fmt), Len(cols)) :
                    fmt[g] = "GT" =>
                        IF cols[g] = "./."
                        THEN \A k \in 1..Len(fmt) : data[fmt[k]] = None
                        ELSE data["GT"] = PyStr(cols[g])
        IN  Fields(split(records[1].FORMAT.v, ":"),
                   split(SampleColumn(1, 1), ":"),
                   records[1].samples.v[1].data)

\* C27 (amended): where the GT token, read up to its first comma, is
\* './.', the Call's data holds an absent GT and an absent value for every
\* FORMAT field after GT, whatever tokens follow, while every field before
\* GT keeps the sequence decoded from its token; otherwise data['GT'] is a
\* string holding the token's text up to its first comma (the whole token
\* where it holds none).
C27_MissingGenotypeAfterGT ==
    (/\ reader.t = "Reader" /\ Len(records) = 1
     /\ records[1].FORMAT # None /\ Len(records[1].samples.v) >= 1) =>
        LET Fields(fmt, cols, data) ==
                \A g \in 1..Min(Len(fmt), Len(cols)) :
                    fmt[g] = "GT" =>
                        IF Until(cols[g], ",") = "./."
                        THEN /\ data["GT"] = None
                             /\ \A k \in (g + 1)..Len(fmt) : data[fmt[k]] = None
                             /\ \A k \in 1..(g - 1) :
                                   /\ data[fmt[k]].t = "list"
                                   /\ Len(data[fmt[k]].v) =
                                         Len(split(cols[k], ","))
                        ELSE data["GT"] = PyStr(Until(cols[g], ","))
        IN  Fields(split(records[1].FORMAT.v, ":"),
                   split(SampleColumn(1, 1), ":"),
                   records[1].samples.v[1].data)

\* the sample column './.:7:8' has been read under the FORMAT GT:X:DP: GT,
\* X and DP are all absent
C27_Witness ==
    /\ reader.t = "Reader" /\ Len(records) = 1
    /\ records[1].FORMAT = PyStr("GT:X:DP")
    /\ SampleColumn(1, 1) = "./.:7:8"
    /\ records[1].samples.v[1].data = [GT |-> None, X |-> None, DP |-> None]

---------------------------------------------------------------------------
(* Generic metadata lines. *)

\* C28 (as claimed): for every header line ##key=value the Reader has read
\* that is no INFO, FILTER or FORMAT declaration, the Reader's metadata
\* holds, under the text between '##' and the line's first '=', the text
\* after that first '='.
C28_MetadataSplitAtFirstEquals ==
    reader.t = "Reader" =>
        \A k \in 1..Len(reader.header_lines) :
            LET Stored(key, val) ==
                    key \in DOMAIN reader.metadata /\ reader.metadata[key] = val
                Generic(line, p) ==
                    (/\ ~StartsWith(line, "##INFO") /\ ~StartsWith(line, "##FILTER")
                     /\ ~StartsWith(line, "##FORMAT")
                     /\ p >= 3 /\ p + 1 < Len(line)) =>
                        Stored(SubSeq(line, 3, p), From(line, p + 2))
                Line(line) == Generic(line, find(line, "="))
            IN  Line(strip(reader.header_lines[k]))

=============================================================================
